---- MODULE Spec2Model ----
(***************************************************************************)
(* A model of the Lighthouse report tooling: the FixGenerator of           *)
(* src/lib/fix-generator.js (the generator the `gl fixes` command loads),  *)
(* the second FixGenerator source that ships beside it (a different        *)
(* dispatch table, the same formatOutput), and the LighthouseAnalyzer.     *)
(*                                                                         *)
(* Encoding of JavaScript values:                                          *)
(*   - a value that may be missing is a set: {v} is the value v, {} is   *)
(*     null, Undefined is undefined (a property the object has not, an     *)
(*     argument not given) and NaN is the number NaN; where the code       *)
(*     treats null and undefined alike the reports of the model hold {};   *)
(*   - a score is an integer number of hundredths (0.9 is 90);             *)
(*   - a URL is the sequence of its '/'-separated segments, so             *)
(*     "chrome-extension://abc/content.js" is                              *)
(*     <<"chrome-extension:", "", "abc", "content.js">>;                   *)
(*   - a concatenated string is a record [fmt, nums, strs]: the literal    *)
(*     text with the numbers and the strings spliced into it, in order;    *)
(*   - rendered markdown is the sequence of its logical lines.             *)
(***************************************************************************)
EXTENDS Integers, Sequences, FiniteSets, TLC

VARIABLES
    impl,       \* which FixGenerator source file is loaded
    lhr,        \* FixGenerator.lhr: the parsed report
    fixes,      \* FixGenerator.fixes: the accumulated fix records
    pc,         \* position inside / between generate() calls
    output,     \* the string returned by the last formatOutput()
    calls,      \* number of generate() calls started on this instance
    alhr,       \* LighthouseAnalyzer.lhr
    aargs,      \* the options the analyzer's constructor was given
    aoptions,   \* LighthouseAnalyzer.options
    afailed,    \* outcome of getFailedAudits(), when it was the last query
    aopps,      \* value of getOpportunities(), when it was the last query
    avitals,    \* value of getCoreWebVitals(), when it was the last query
    aresult,    \* outcome of getSummary(), getDiagnostics() or
                \* formatMarkdown(), when it was the last query
    cmd,        \* the command run: "fixes", "analyze" or "init"
    cargs,      \* its argument and options
    fsys,       \* the file system it runs on
    cpc,        \* position inside the command
    reportPath, \* the command's reportPath
    content,    \* the content the command holds in memory
    console,    \* what the command has printed, in order
    effects,    \* the directories and files it has created, in order
    exitCode    \* the exit status of the process, once it has ended

vars == <<impl, lhr, fixes, pc, output, calls,
          alhr, aargs, aoptions, afailed, aopps, avitals, aresult,
          cmd, cargs, fsys, cpc, reportPath, content, console, effects, exitCode>>

genVars == <<impl, lhr, fixes, pc, output, calls>>
anVars == <<alhr, aargs, aoptions, afailed, aopps, avitals, aresult>>
cmdVars == <<cmd, cargs, fsys, cpc, reportPath, content, console, effects, exitCode>>

----------------------------------------------------------------------------
(* Bounds of the model.                                                    *)

\* longest list of failing audit references spread over the categories
MaxRefs == 3
\* longest details.items list of the unused-javascript audit
MaxItems == 2
\* generate() calls made on one FixGenerator instance
MaxGenerate == 2
\* longest auditRefs list of the analyzer's first category
MaxAnalyzerRefs == 2

----------------------------------------------------------------------------
(* JavaScript helpers.                                                     *)

\* null
None == {}
Some(v) == {v}
Get(o) == CHOOSE v \in o : TRUE

\* undefined and NaN: no set of one element, and none equal to another
Undefined == {TRUE, FALSE}
NaN == {"not", "a", "number"}

\* `x == null`: what `?.` stops at
Nullish(o) == o = None \/ o = Undefined

\* `x || d` for an optional number: undefined, null, NaN and 0 are all falsy
OrDefault(o, d) == IF Nullish(o) \/ o = NaN \/ o = {0} THEN d ELSE Get(o)

\* Math.round(num / den) for num >= 0, den > 0: halves round up
MathRound(num, den) == (2 * num + den) \div (2 * den)

Max(a, b) == IF a >= b THEN a ELSE b

\* A number that need not be a whole number of hundredths: num / den
\* hundredths, den a power of ten and as small as can be.  den = 0 stands
\* for Infinity (num = 1) and -Infinity (num = -1).
Dec(num, den) == [num |-> num, den |-> den]

\* a whole number of hundredths
Hundredths(n) == Dec(n, 1)

\* `x || d` for an optional Dec: undefined, null, NaN, 0 and -0 are all
\* falsy
OrDefaultDec(o, d) ==
    IF Nullish(o) \/ o = NaN THEN d
    ELSE IF Get(o).num = 0 THEN d ELSE Get(o)

\* `score < limit` of a score in hundredths and a Dec
LessThanDec(score, limit) == score * limit.den < limit.num

\* A string of the command line is the sequence of its UTF-16 code units.
\* The printable ASCII characters in order: U+0020 to U+005F, and U+0061 to
\* U+007E (a string of this module cannot hold U+0060, the grave accent).
AsciiLow == " !\"#$%&'()*+,-./0123456789:;<=>?@ABCDEFGHIJKLMNOPQRSTUVWXYZ[\\]^_"
AsciiHigh == "abcdefghijklmnopqrstuvwxyz{|}~"

\* the code unit of a printable ASCII character
CodeOf(c) ==
    IF \E k \in 1..Len(AsciiLow) : SubSeq(AsciiLow, k, k) = c
    THEN 31 + CHOOSE k \in 1..Len(AsciiLow) : SubSeq(AsciiLow, k, k) = c
    ELSE 96 + CHOOSE k \in 1..Len(AsciiHigh) : SubSeq(AsciiHigh, k, k) = c

\* the string of a text of printable ASCII characters
Codes(text) == [i \in 1..Len(text) |-> CodeOf(SubSeq(text, i, i))]

\* the character of a code unit of printable ASCII
CharOf(code) ==
    IF code < 96 THEN SubSeq(AsciiLow, code - 31, code - 31)
    ELSE SubSeq(AsciiHigh, code - 96, code - 96)

\* the text of a string of printable ASCII characters
RECURSIVE Text(_)
Text(str) == IF str = <<>> THEN "" ELSE CharOf(Head(str)) \o Text(Tail(str))

\* The white space parseFloat and trim() take off (WhiteSpace and
\* LineTerminator of ECMAScript): tab, line feed, vertical tab, form feed,
\* carriage return, space, no-break space, ogham space mark, U+2000 to
\* U+200A, line and paragraph separator, U+202F, U+205F, the ideographic
\* space and the byte order mark
WhiteSpace ==
    {9, 10, 11, 12, 13, 32, 160, 5760, 8232, 8233, 8239, 8287, 12288, 65279}
    \cup 8192..8202

RECURSIVE Pow10(_)
Pow10(k) == IF k = 0 THEN 1 ELSE 10 * Pow10(k - 1)

\* the code unit of str at position i (from 1), -1 past its ends
CodeAt(str, i) == IF i \in 1..Len(str) THEN str[i] ELSE 0 - 1

\* the code units of the decimal digits
Digits == CodeOf("0")..CodeOf("9")

\* the position after the run of code units in S that starts at i
RECURSIVE RunEnd(_, _, _)
RunEnd(str, i, S) ==
    IF CodeAt(str, i) \in S THEN RunEnd(str, i + 1, S) ELSE i

\* the value of the decimal digits str[from..to], 0 when there are none
RECURSIVE DigitsValue(_, _, _)
DigitsValue(str, from, to) ==
    IF to < from THEN 0
    ELSE 10 * DigitsValue(str, from, to - 1) + (str[to] - CodeOf("0"))

\* num / den with the factors of ten common to both taken out
RECURSIVE Reduce(_, _)
Reduce(num, den) ==
    IF den > 1 /\ num % 10 = 0 THEN Reduce(num \div 10, den \div 10)
    ELSE Dec(num, den)

\* String.prototype.substring(0, end) of a string: its first `end`
\* characters, the whole string when it is no longer than that
Substring(str, end) ==
    IF Len(str) <= end THEN str ELSE SubSeq(str, 1, end)

RECURSIVE SeqSum(_)
SeqSum(s) == IF s = <<>> THEN 0 ELSE Head(s) + SeqSum(Tail(s))

\* Array.prototype.filter is SelectSeq of the Sequences module.

\* Array.prototype.slice(0, n)
Slice(s, n) == SubSeq(s, 1, IF Len(s) < n THEN Len(s) ELSE n)

\* Insert the pair x = <<key, value>> into the key-sorted sequence s of
\* pairs after every element whose key is not greater: the step of a
\* stable insertion sort.
RECURSIVE InsertStable(_, _)
InsertStable(x, s) ==
    IF s = <<>> THEN <<x>>
    ELSE IF x[1] < Head(s)[1] THEN <<x>> \o s
         ELSE <<Head(s)>> \o InsertStable(x, Tail(s))

RECURSIVE SortPairs(_)
SortPairs(ps) ==
    IF ps = <<>> THEN <<>>
    ELSE InsertStable(ps[Len(ps)], SortPairs(SubSeq(ps, 1, Len(ps) - 1)))

\* Array.prototype.sort((a, b) => key(a) - key(b)): ascending in the key and
\* stable (ECMAScript 2019, V8 7.0+).  keys[i] is the key of s[i].
SortStable(s, keys) ==
    LET sorted == SortPairs([i \in 1..Len(s) |-> <<keys[i], s[i]>>])
    IN  [i \in 1..Len(s) |-> sorted[i][2]]

\* A concatenated string: literal text with numbers and strings spliced in
Txt(fmt, nums, strs) == [fmt |-> fmt, nums |-> nums, strs |-> strs]
Lit(fmt) == Txt(fmt, <<>>, <<>>)

\* the string t ends with / starts with / holds the string s
IsSuffix(s, t) == Len(s) <= Len(t) /\ SubSeq(t, Len(t) - Len(s) + 1, Len(t)) = s
IsPrefix(s, t) == Len(s) <= Len(t) /\ SubSeq(t, 1, Len(s)) = s
IsInfix(s, t) == \E i \in 0..(Len(t) - Len(s)) : SubSeq(t, i + 1, i + Len(s)) = s

\* String.prototype.includes on '/'-separated segment sequences: the
\* marker may begin and end anywhere in a segment, so its first segment
\* ends a segment of the url, its last one starts a segment, and those
\* between are whole segments
Includes(url, marker) ==
    IF Len(marker) = 1
    THEN \E k \in 1..Len(url) : IsInfix(marker[1], url[k])
    ELSE \E off \in 0..(Len(url) - Len(marker)) :
             /\ IsSuffix(marker[1], url[off + 1])
             /\ IsPrefix(marker[Len(marker)], url[off + Len(marker)])
             /\ \A k \in 2..(Len(marker) - 1) : url[off + k] = marker[k]

\* 'chrome-extension://'
ExtensionMarker == <<"chrome-extension:", "", "">>
\* '/_next/static/chunks/'
NextChunkMarker == <<"", "_next", "static", "chunks", "">>

\* item.url?.includes(marker): undefined (falsy) when the url is absent
UrlIncludes(item, marker) == ~Nullish(item.url) /\ Includes(Get(item.url), marker)

\* the empty string as a URL: ''.split('/') is ['']
EmptyUrl == <<"">>

\* url.split('/').pop()
LastSegment(url) == url[Len(url)]

----------------------------------------------------------------------------
(* The report (LHR) as the generator and the analyzer read it.             *)
(*                                                                         *)
(*   audit   [id, score, scoreDisplayMode, description, numericValue,      *)
(*            details]                                                     *)
(*   details [type, items, overallSavingsMs]                               *)
(*   item    [url, wastedBytes, totalBytes, type, nodeLabel, selector,     *)
(*            description, sourceUrl, items]                               *)
(*            (nodeLabel is item.node.nodeLabel, or item.nodeLabel of a    *)
(*            'node' item; sourceUrl is item.sourceLocation.url; items the *)
(*            rows [subpart, duration] of a nested table, the duration     *)
(*            absent from some rows)                                       *)
(*   report  [categories, audits]: categories maps the ids of the          *)
(*            categories present to [auditRefs], audits maps the ids of    *)
(*            the audits present to the audit                              *)

\* '' + x for a string x that may be missing: 'null', 'undefined'
Str(o) ==
    IF o = None THEN "null"
    ELSE IF o = Undefined THEN "undefined"
    ELSE Get(o)

\* this.lhr.categories[c]?.auditRefs || []
AuditRefs(report, c) ==
    IF c \in DOMAIN report.categories THEN report.categories[c].auditRefs
    ELSE <<>>

\* the names of the properties every object inherits from
\* Object.prototype
ObjectPrototypeKeys ==
    {"constructor", "toString", "toLocaleString", "valueOf", "hasOwnProperty",
     "isPrototypeOf", "propertyIsEnumerable", "__proto__", "__defineGetter__",
     "__defineSetter__", "__lookupGetter__", "__lookupSetter__"}

\* the value of an inherited property: a function, or Object.prototype
\* for __proto__; an object with none of the properties of an audit or
\* of a category
InheritedValue(name) == [inherited |-> name]

\* obj.name: undefined when the object has no such property
Prop(obj, name) == IF name \in DOMAIN obj THEN obj[name] ELSE Undefined

\* this.lhr.audits[id]: the audit of the report, else the property the
\* audits object inherits under that name, else undefined
AuditAt(report, id) ==
    IF id \in DOMAIN report.audits THEN {report.audits[id]}
    ELSE IF id \in ObjectPrototypeKeys THEN {InheritedValue(id)}
    ELSE Undefined

\* audit.details?.items || []
ItemsOf(audit) ==
    IF Nullish(audit.details) THEN <<>>
    ELSE IF Nullish(Get(audit.details).items) THEN <<>>
    ELSE Get(Get(audit.details).items)

\* audit.details?.overallSavingsMs
SavingsMsOf(audit) ==
    IF Nullish(audit.details) THEN Undefined
    ELSE Get(audit.details).overallSavingsMs

\* items[0]?.node?.nodeLabel
FirstNodeLabel(items) == IF items = <<>> THEN Undefined ELSE items[1].nodeLabel

\* items.find(test): the first element satisfying it, or undefined
FindFirst(s, Test(_)) ==
    LET hits == SelectSeq(s, Test) IN IF hits = <<>> THEN Undefined ELSE {hits[1]}

\* Math.round(x) + 'ms' for a number of milliseconds that may be missing:
\* null converts to 0, undefined to NaN
RoundedMs(o) ==
    IF o = None THEN Txt("%ms", <<0>>, <<>>)
    ELSE IF o = Undefined \/ o = NaN THEN Lit("NaNms")
    ELSE Txt("%ms", <<MathRound(Get(o), 1)>>, <<>>)

----------------------------------------------------------------------------
(* Arrays.  An array is an object: the methods that give a new array       *)
(* (filter, slice) leave the one they are called on as it is, those that   *)
(* work in place (sort, push) change it for every holder of a reference.   *)
(* A heap is the sequence of the arrays alive, a reference an index into   *)
(* it; each method yields the heap it leaves and the reference it returns. *)

ArrayResult(heap, ref) == [heap |-> heap, ref |-> ref]

\* a filter working in place, as sort does: the array called on is left
\* holding the kept elements
ArrayFilter_InPlace(heap, ref, kept) ==
    ArrayResult([heap EXCEPT ![ref] = kept], ref)

\* Array.prototype.filter: a new array of the elements of heap[ref] that
\* the callback kept, the array called on left as it is
ArrayFilter(heap, ref, kept) ==
    ArrayResult(Append(heap, kept), Len(heap) + 1)

\* Array.prototype.sort((a, b) => Key(a) - Key(b))
ArraySort(heap, ref, Key(_)) ==
    LET array == heap[ref]
    IN  ArrayResult([heap EXCEPT ![ref] =
                        SortStable(array, [i \in 1..Len(array) |-> Key(array[i])])],
                    ref)

\* Array.prototype.slice(0, n)
ArraySlice(heap, ref, n) ==
    ArrayResult(Append(heap, Slice(heap[ref], n)), Len(heap) + 1)

\* array.push(...elements), which returns no array
ArrayPush(heap, ref, elements) ==
    ArrayResult([heap EXCEPT ![ref] = heap[ref] \o elements], ref)

\* `[]`, and every other expression making an array of its own
ArrayNew(heap, elements) == ArrayResult(Append(heap, elements), Len(heap) + 1)

----------------------------------------------------------------------------
(* Fix records.                                                            *)

Snippet(type, title, code) == [type |-> type, title |-> title, code |-> code]

MkFix(title, priority, impact, description, diagnosis, snippets) ==
    [title |-> title, priority |-> priority, impact |-> impact,
     description |-> description, diagnosis |-> diagnosis, fixes |-> snippets]

----------------------------------------------------------------------------
(* The rules of src/lib/fix-generator.js.  Each yields the fix its addFix  *)
(* call appends.                                                           *)

\* diagnoseTTFB with its first comparison off by one (>= for >)
diagnoseTTFB_OffByOne(ttfbMs) ==
    IF ttfbMs >= 1000 THEN "TTFB is critically high (> 1s)"
    ELSE IF ttfbMs > 600 THEN "TTFB is elevated (> 600ms)"
    ELSE IF ttfbMs > 400 THEN "TTFB is moderate (> 400ms)"
    ELSE "TTFB is acceptable"

diagnoseTTFB(ttfbMs) ==
    IF ttfbMs > 1000 THEN "TTFB is critically high (> 1s)"
    ELSE IF ttfbMs > 600 THEN "TTFB is elevated (> 600ms)"
    ELSE IF ttfbMs > 400 THEN "TTFB is moderate (> 400ms)"
    ELSE "TTFB is acceptable"

\* diagnoseFID with the two middle tiers tested in the wrong order
diagnoseFID_Swapped(fidMs) ==
    IF fidMs > 200 THEN "FID is critically high (> 200ms)"
    ELSE IF fidMs > 50 THEN "FID is acceptable but could be better"
    ELSE IF fidMs > 100 THEN "FID needs improvement (> 100ms)"
    ELSE "FID is good"

diagnoseFID(fidMs) ==
    IF fidMs > 200 THEN "FID is critically high (> 200ms)"
    ELSE IF fidMs > 100 THEN "FID needs improvement (> 100ms)"
    ELSE IF fidMs > 50 THEN "FID is acceptable but could be better"
    ELSE "FID is good"

getServerResponseTimeFixes(ttfbMs) ==
    (IF ttfbMs > 600
     THEN <<Snippet("text", "TTFB Root Cause Analysis",
                    Lit("1. Check server location & CDN ..."))>>
     ELSE <<>>)
    \o <<Snippet("bash", "Add Cache Headers", Lit("# Apache .htaccess ..."))>>

addServerResponseTimeFixes(audit) ==
    LET ttfbMs == OrDefault(audit.numericValue, 0)
    IN  MkFix(Txt("Reduce Server Response Time (TTFB: %ms)",
                  <<MathRound(ttfbMs, 1)>>, <<>>),
              "high",
              "All Core Web Vitals - TTFB affects LCP, FCP, and SI",
              audit.description,
              Some(Lit(diagnoseTTFB(ttfbMs))),
              getServerResponseTimeFixes(ttfbMs))

IsExtensionItem(item) == UrlIncludes(item, ExtensionMarker)

\* the first-party filter with its negation lost
IsFirstPartyItem_NoNegation(item) == UrlIncludes(item, ExtensionMarker)

IsFirstPartyItem(item) == ~UrlIncludes(item, ExtensionMarker)

\* what items.filter(e => !e.url?.includes('chrome-extension://')) keeps
FirstPartyItems(items) == SelectSeq(items, IsFirstPartyItem)

\* what items.filter(e => e.url?.includes('chrome-extension://')) keeps
ExtensionItems(items) == SelectSeq(items, IsExtensionItem)

WastedBytesOf(item) == OrDefault(item.wastedBytes, 0)

\* the key of (a, b) => (b.wastedBytes || 0) - (a.wastedBytes || 0)
WastedBytesDescending(item) == 0 - WastedBytesOf(item)

\* `item.url || 'unknown'`: undefined, null and '' are falsy
UrlOrUnknown(item) ==
    IF Nullish(item.url) THEN <<"unknown">>
    ELSE IF Get(item.url) = EmptyUrl \/ Get(item.url) = <<>> THEN <<"unknown">>
    ELSE Get(item.url)

\* items.filter(first-party).sort(by wastedBytes, descending).slice(0, 5)
\* on the array at `items`, rendered as one (filename, wasted KB, total KB)
\* entry per file: the heap it leaves and the string it returns
getUnusedJsAnalysis(heap, items, totalBytes, totalMs) ==
    LET filtered == ArrayFilter(heap, items, FirstPartyItems(heap[items]))
        sorted == ArraySort(filtered.heap, filtered.ref, WastedBytesDescending)
        sliced == ArraySlice(sorted.heap, sorted.ref, 5)
        topWasters == sliced.heap[sliced.ref]
    IN  [heap |-> sliced.heap,
         value |->
           Txt("## Unused JavaScript Details: %KB wasted, %ms savings; top wasting files: (%: %KB / %KB)*",
               <<MathRound(totalBytes, 1024), totalMs>>
                 \o [k \in 1..(2 * Len(topWasters)) |->
                       IF k % 2 = 1
                       THEN MathRound(WastedBytesOf(topWasters[(k + 1) \div 2]), 1024)
                       ELSE MathRound(OrDefault(topWasters[k \div 2].totalBytes, 0), 1024)],
               [i \in 1..Len(topWasters) |-> LastSegment(UrlOrUnknown(topWasters[i]))])]

DynamicImportsSnippet ==
    Snippet("javascript", "Dynamic Imports for Code Splitting",
            Lit("import dynamic from 'next/dynamic'; ..."))

\* `audit.details?.items || []`: the array of the audit, a new one when
\* the audit has none
ItemsHeap(audit) == <<ItemsOf(audit)>>

\* e.url?.split('/').pop() of every extension item, joined by ', '
ExtensionNames(extensions) ==
    [i \in 1..Len(extensions) |-> LastSegment(Get(extensions[i].url))]

\* the rule with the byte total summed over the first-party items only
addUnusedJavaScriptFixes_FirstPartyTotal(audit) ==
    LET items == ItemsOf(audit)
        totalWastedMs == OrDefault(SavingsMsOf(audit), 0)
        own == SelectSeq(items, IsFirstPartyItem)
        totalWastedBytes ==
            SeqSum([i \in 1..Len(own) |-> WastedBytesOf(own[i])])
        filteredFirst == ArrayFilter(ItemsHeap(audit), 1, FirstPartyItems(ItemsHeap(audit)[1]))
        filteredExt == ArrayFilter(filteredFirst.heap, 1, ExtensionItems(filteredFirst.heap[1]))
        firstParty == filteredExt.heap[filteredFirst.ref]
        extensions == filteredExt.heap[filteredExt.ref]
        analysis == getUnusedJsAnalysis(filteredExt.heap, filteredFirst.ref,
                                        totalWastedBytes, totalWastedMs)
        snippets ==
            (IF Len(firstParty) > 0
             THEN <<Snippet("markdown", "Unused JavaScript Analysis", analysis.value),
                    DynamicImportsSnippet>>
             ELSE <<>>)
            \o
            (IF Len(extensions) > 0
             THEN <<Snippet("text", "Browser Extensions Detected (Can Ignore)",
                            Txt("Browser extensions like % only affect local development. ...",
                                <<>>, ExtensionNames(extensions)))>>
             ELSE <<>>)
    IN  [heap |-> IF Len(firstParty) > 0 THEN analysis.heap ELSE filteredExt.heap,
         fix |->
           MkFix(Txt("Reduce Unused JavaScript (~%KB wasted, %ms savings)",
                     <<MathRound(totalWastedBytes, 1024), totalWastedMs>>, <<>>),
                 "high", "FCP, LCP, and TBT", audit.description,
                 Some(Txt("% first-party files with unused code",
                          <<Len(firstParty)>>, <<>>)),
                 snippets)]

\* addUnusedJavaScriptFixes(audit): the fix it appends and the heap it
\* leaves, the array of the audit at reference 1
addUnusedJavaScriptFixes(audit) ==
    LET items == ItemsOf(audit)
        totalWastedMs == OrDefault(SavingsMsOf(audit), 0)
        totalWastedBytes ==
            SeqSum([i \in 1..Len(items) |-> WastedBytesOf(items[i])])
        filteredFirst == ArrayFilter(ItemsHeap(audit), 1, FirstPartyItems(ItemsHeap(audit)[1]))
        filteredExt == ArrayFilter(filteredFirst.heap, 1, ExtensionItems(filteredFirst.heap[1]))
        firstParty == filteredExt.heap[filteredFirst.ref]
        extensions == filteredExt.heap[filteredExt.ref]
        analysis == getUnusedJsAnalysis(filteredExt.heap, filteredFirst.ref,
                                        totalWastedBytes, totalWastedMs)
        snippets ==
            (IF Len(firstParty) > 0
             THEN <<Snippet("markdown", "Unused JavaScript Analysis", analysis.value),
                    DynamicImportsSnippet>>
             ELSE <<>>)
            \o
            (IF Len(extensions) > 0
             THEN <<Snippet("text", "Browser Extensions Detected (Can Ignore)",
                            Txt("Browser extensions like % only affect local development. ...",
                                <<>>, ExtensionNames(extensions)))>>
             ELSE <<>>)
    IN  [heap |-> IF Len(firstParty) > 0 THEN analysis.heap ELSE filteredExt.heap,
         fix |->
           MkFix(Txt("Reduce Unused JavaScript (~%KB wasted, %ms savings)",
                     <<MathRound(totalWastedBytes, 1024), totalWastedMs>>, <<>>),
                 "high", "FCP, LCP, and TBT", audit.description,
                 Some(Txt("% first-party files with unused code",
                          <<Len(firstParty)>>, <<>>)),
                 snippets)]

addColorContrastFixes(audit) ==
    LET items == ItemsOf(audit)
    IN  MkFix(Txt("Fix Color Contrast (% elements affected)", <<Len(items)>>, <<>>),
              "high", "Accessibility (WCAG AA compliance)", audit.description,
              Some(Txt("Elements like \"%\" have insufficient contrast (3.65:1, need 4.5:1)",
                       <<>>, <<Str(FirstNodeLabel(items))>>)),
              <<Snippet("css", "Fix contrast with darker text",
                        Lit("/* Current issue: text-white/40 ... */"))>>)

addHeadingOrderFixes(audit) ==
    LET items == ItemsOf(audit)
        label == FirstNodeLabel(items)
        shown == IF Nullish(label) \/ label = {""} THEN "Subheading" ELSE Get(label)
    IN  MkFix(Lit("Fix Heading Order Hierarchy"),
              "medium", "Accessibility and SEO", audit.description,
              Some(Txt("Found heading with invalid order: %", <<>>, <<Str(label)>>)),
              <<Snippet("html", "Add missing h2 heading",
                        Txt("<h1>Main Title</h1> <h3>%</h3> ... <h2>Section Title</h2> <h3>%</h3>",
                            <<>>, <<shown, shown>>))>>)

\* the characters of an error's URL the error analysis shows
UrlShown == 80

addConsoleErrorsFixes(audit) ==
    LET items == ItemsOf(audit)
        firstDescription ==
            IF items = <<>> THEN "Console errors detected"
            ELSE IF Nullish(items[1].description) \/ items[1].description = {""}
            THEN "Console errors detected"
            ELSE Get(items[1].description)
        line(item) ==
            <<Str(item.description)>>
            \o (IF Nullish(item.sourceUrl) \/ item.sourceUrl = {""} THEN <<>>
                ELSE <<Substring(Get(item.sourceUrl), UrlShown)>>)
        RECURSIVE lines(_)
        lines(s) == IF s = <<>> THEN <<>> ELSE line(Head(s)) \o lines(Tail(s))
    IN  MkFix(Txt("Fix Console Errors (% errors)", <<Len(items)>>, <<>>),
              "medium", "User experience", audit.description,
              Some(Lit(firstDescription)),
              <<Snippet("text", "Error Analysis",
                        Txt("(- %[ URL: %])*", <<>>, lines(items)))>>)

\* addSourceMapsFixes with a priority that grows with the number of files
addSourceMapsFixes_BySeverity(audit) ==
    LET items == ItemsOf(audit)
    IN  MkFix(Txt("Fix Missing Source Maps (% files)", <<Len(items)>>, <<>>),
              IF Len(items) > 1 THEN "medium" ELSE "low",
              "Debugging (not production)", audit.description,
              Some(Txt("% JavaScript files missing source maps", <<Len(items)>>, <<>>)),
              <<Snippet("bash", "Enable source maps in Next.js",
                        Lit("# next.config.js ... productionBrowserSourceMaps: true"))>>)

addSourceMapsFixes(audit) ==
    LET items == ItemsOf(audit)
    IN  MkFix(Txt("Fix Missing Source Maps (% files)", <<Len(items)>>, <<>>),
              "low", "Debugging (not production)", audit.description,
              Some(Txt("% JavaScript files missing source maps", <<Len(items)>>, <<>>)),
              <<Snippet("bash", "Enable source maps in Next.js",
                        Lit("# next.config.js ... productionBrowserSourceMaps: true"))>>)

IsTableItem(item) == item.type = "table"
IsNodeItem(item) == item.type = "node"
IsTtfbRow(row) == row.subpart = "timeToFirstByte"

addLCPBreakdownFixes(audit) ==
    LET items == ItemsOf(audit)
        timingTable == FindFirst(items, IsTableItem)
        lcpElement == FindFirst(items, IsNodeItem)
        hasTable == IF timingTable = Undefined THEN FALSE
                    ELSE ~Nullish(Get(timingTable).items)
        ttfb == IF hasTable
                THEN FindFirst(Get(Get(timingTable).items), IsTtfbRow)
                ELSE Undefined
        diagnosis ==
            IF hasTable
            THEN IF ttfb # Undefined
                 THEN LET shown == RoundedMs(Get(ttfb).duration)
                      IN  Txt("LCP breakdown: TTFB " \o shown.fmt, shown.nums, <<>>)
                 ELSE Lit("LCP breakdown: TTFB N/A")
            ELSE Lit("")
        orElse(o, d) == IF Nullish(o) \/ o = {""} THEN d ELSE Get(o)
        snippets ==
            IF lcpElement # Undefined
            THEN <<Snippet("text", "Optimize LCP Element",
                           Txt("LCP Element: % Selector: % ...", <<>>,
                               <<orElse(Get(lcpElement).nodeLabel, "Unknown"),
                                 orElse(Get(lcpElement).selector, "unknown")>>))>>
            ELSE <<>>
    IN  MkFix(Lit("Optimize LCP Breakdown"), "high", "LCP metric",
              audit.description, Some(diagnosis), snippets)

addDocumentLatencyFixes(audit) ==
    LET wastedMs == OrDefault(SavingsMsOf(audit), 570)
    IN  MkFix(Txt("Reduce Document Request Latency (~%ms savings)", <<wastedMs>>, <<>>),
              "high", "All page metrics", audit.description,
              Some(Lit("Initial HTML request is taking too long")),
              <<Snippet("text", "Document Latency Solutions",
                        Lit("1. Use CDN (Vercel, Netlify, Cloudflare) ..."))>>)

addFIDFixes(audit) ==
    LET value == OrDefault(audit.numericValue, 0)
    IN  MkFix(Txt("Reduce First Input Delay (FID: %ms)", <<MathRound(value, 1)>>, <<>>),
              IF value > 100 THEN "high" ELSE "medium",
              "Interactivity", audit.description,
              Some(Lit(diagnoseFID(value))),
              <<Snippet("text", "Break up long JavaScript tasks",
                        Lit("- Use requestIdleCallback or setTimeout for chunking ..."))>>)

addSpeedIndexFixes(audit) ==
    MkFix(Lit("Improve Speed Index"), "medium", "Perceived performance",
          audit.description, None,
          <<Snippet("html", "Add critical CSS inline", Lit("<head> <style>...</style> ..."))>>)

addMetaDescriptionFixes(audit) ==
    MkFix(Lit("Add Meta Description"), "high", "SEO", audit.description, None,
          <<Snippet("html", "Add meta description in head",
                    Lit("<head> <meta name=\"description\" ...> </head>"))>>)

addCanonicalFixes(audit) ==
    MkFix(Lit("Add Canonical Link"), "medium", "SEO", audit.description, None,
          <<Snippet("html", "Add canonical link element",
                    Lit("<head> <link rel=\"canonical\" ...> </head>"))>>)

addBFCacheFixes(audit) ==
    LET items == ItemsOf(audit)
    IN  MkFix(Lit("Enable Back/Forward Cache"), "medium", "Navigation performance",
              audit.description,
              Some(Txt("% issues preventing bfcache", <<Len(items)>>, <<>>)),
              <<Snippet("text", "bfcache Solutions",
                        Lit("- Remove Cache-Control: no-store header ..."))>>)

IsNextJsChunk(item) ==
    /\ ~Nullish(item.url)
    /\ Get(item.url) # <<>>
    /\ Includes(Get(item.url), NextChunkMarker)

addNextJsOptimizationFixes(chunks) ==
    LET totalWastedBytes ==
            SeqSum([i \in 1..Len(chunks) |-> WastedBytesOf(chunks[i])])
    IN  MkFix(Txt("Optimize Next.js Bundle Size (~%KB wasted)",
                  <<MathRound(totalWastedBytes, 1024)>>, <<>>),
              "high", "FCP, LCP, and TBT",
              "Reduce unused JavaScript in Next.js chunks", None,
              <<Snippet("bash", "Analyze Bundle Size",
                        Lit("npm install @next/bundle-analyzer ...")),
                Snippet("javascript", "Optimize next.config.js",
                        Lit("module.exports = { swcMinify: true, ... };"))>>)

----------------------------------------------------------------------------
(* The rules of the second FixGenerator source (src/unnamed/part_000):     *)
(* every rule is a fixed template that reads only audit.description.  The  *)
(* three rules whose names also occur in src/lib/fix-generator.js carry    *)
(* the prefix alt_.                                                        *)

addRenderBlockingFixes(audit) ==
    MkFix(Lit("Eliminate Render-Blocking Resources"), "high", "First Contentful Paint",
          audit.description, None,
          <<Snippet("html", "Make CSS non-blocking", Lit("...")),
            Snippet("html", "Defer JavaScript", Lit("..."))>>)

addMinifyCssFixes(audit) ==
    MkFix(Lit("Minify CSS"), "medium", "Page size and parse time",
          audit.description, None,
          <<Snippet("bash", "Using cssnano", Lit("..."))>>)

addMinifyJsFixes(audit) ==
    MkFix(Lit("Minify JavaScript"), "medium", "Page size and parse time",
          audit.description, None,
          <<Snippet("bash", "Using Terser", Lit("..."))>>)

addUnusedCssFixes(audit) ==
    MkFix(Lit("Remove Unused CSS"), "medium", "Page size",
          audit.description, None,
          <<Snippet("bash", "Using PurgeCSS", Lit("..."))>>)

addUnusedJsFixes(audit) ==
    MkFix(Lit("Remove Unused JavaScript"), "medium", "Page size and parse time",
          audit.description, None,
          <<Snippet("javascript", "Use dynamic imports", Lit("..."))>>)

addImageFormatFixes(audit) ==
    MkFix(Lit("Serve Images in Modern Formats"), "medium", "Page size",
          audit.description, None,
          <<Snippet("html", "Use picture element with WebP/AVIF", Lit("..."))>>)

addLazyLoadFixes(audit) ==
    MkFix(Lit("Defer Offscreen Images"), "low", "Initial page load",
          audit.description, None,
          <<Snippet("html", "Add loading=\"lazy\" attribute", Lit("..."))>>)

addImageOptimizationFixes(audit) ==
    MkFix(Lit("Optimize Images"), "high", "Page size and LCP",
          audit.description, None,
          <<Snippet("html", "Always specify width and height", Lit("..."))>>)

addDocumentTitleFixes(audit) ==
    MkFix(Lit("Add Document Title"), "high", "SEO and accessibility",
          audit.description, None,
          <<Snippet("html", "Add descriptive title element", Lit("..."))>>)

addImageAltFixes(audit) ==
    MkFix(Lit("Add Alt Text to Images"), "high", "Accessibility",
          audit.description, None,
          <<Snippet("html", "Add descriptive alt text", Lit("..."))>>)

alt_addColorContrastFixes(audit) ==
    MkFix(Lit("Improve Color Contrast"), "medium", "Accessibility (WCAG AA)",
          audit.description, None,
          <<Snippet("css", "Increase contrast to at least 4.5:1", Lit("..."))>>)

addFormLabelFixes(audit) ==
    MkFix(Lit("Add Labels to Form Inputs"), "high", "Accessibility",
          audit.description, None,
          <<Snippet("html", "Use label elements with for attribute", Lit("..."))>>)

addButtonNameFixes(audit) ==
    MkFix(Lit("Add Accessible Names to Buttons"), "high", "Accessibility",
          audit.description, None,
          <<Snippet("html", "Add text content or aria-label", Lit("..."))>>)

addLinkNameFixes(audit) ==
    MkFix(Lit("Add Descriptive Link Text"), "medium", "Accessibility and SEO",
          audit.description, None,
          <<Snippet("html", "Use descriptive link text", Lit("..."))>>)

alt_addMetaDescriptionFixes(audit) ==
    MkFix(Lit("Add Meta Description"), "high", "SEO",
          audit.description, None,
          <<Snippet("html", "Add meta description in head", Lit("..."))>>)

alt_addCanonicalFixes(audit) ==
    MkFix(Lit("Add Canonical Link"), "medium", "SEO (duplicate content)",
          audit.description, None,
          <<Snippet("html", "Add canonical link element", Lit("..."))>>)

addStructuredDataFixes(audit) ==
    MkFix(Lit("Add Structured Data"), "medium", "SEO (rich snippets)",
          audit.description, None,
          <<Snippet("html", "Add JSON-LD structured data", Lit("..."))>>)

addViewportFixes(audit) ==
    MkFix(Lit("Add Viewport Meta Tag"), "high", "Mobile rendering",
          audit.description, None,
          <<Snippet("html", "Add viewport meta tag", Lit("..."))>>)

addHttpStatusCodeFixes(audit) ==
    MkFix(Lit("Fix HTTP Status Codes"), "high", "SEO and user experience",
          audit.description, None,
          <<Snippet("javascript", "Node.js/Express example", Lit("..."))>>)

addVulnerableLibrariesFixes(audit) ==
    MkFix(Lit("Update Vulnerable Libraries"), "high", "Security",
          audit.description, None,
          <<Snippet("bash", "Update dependencies", Lit("..."))>>)

----------------------------------------------------------------------------
(* Dispatch.                                                               *)

\* the two FixGenerator sources
Impls == {"lib", "alt"}

Categories == <<"performance", "accessibility", "seo", "best-practices">>

\* 0.9, in hundredths
FixThreshold == 90

\* `score >= t` in JavaScript: null converts to 0, undefined to NaN, and
\* no comparison with NaN holds
ScoreGE(score, t) ==
    IF score = Undefined \/ score = NaN THEN FALSE
    ELSE IF score = None THEN 0 >= t
    ELSE Get(score) >= t
\* `score < t` in JavaScript: null converts to 0, undefined to NaN, and no
\* comparison with NaN holds
ScoreLT(score, t) ==
    IF score = Undefined \/ score = NaN THEN FALSE
    ELSE IF score = None THEN 0 < t
    ELSE Get(score) < t

\* the loop's `continue` with the analyzer's 0.5 as the threshold
Skipped_HalfThreshold(a) ==
    IF a = Undefined THEN TRUE ELSE ScoreGE(Prop(Get(a), "score"), 50)

\* `!audit || audit.score >= 0.9`: the loop's `continue`
Skipped(a) ==
    IF a = Undefined THEN TRUE ELSE ScoreGE(Prop(Get(a), "score"), FixThreshold)

\* the switch of analyzePerformanceIssues etc. of src/lib/fix-generator.js:
\* the fixes the selected rule appends, none when no case matches
LibSwitch(c, audit) ==
    IF c = "performance" THEN
        CASE audit.id = "server-response-time" -> <<addServerResponseTimeFixes(audit)>>
          [] audit.id = "unused-javascript" -> <<addUnusedJavaScriptFixes(audit).fix>>
          [] audit.id = "speed-index" -> <<addSpeedIndexFixes(audit)>>
          [] audit.id = "lcp-breakdown-insight" -> <<addLCPBreakdownFixes(audit)>>
          [] audit.id = "document-latency-insight" -> <<addDocumentLatencyFixes(audit)>>
          [] audit.id = "max-potential-fid" -> <<addFIDFixes(audit)>>
          [] OTHER -> <<>>
    ELSE IF c = "accessibility" THEN
        CASE audit.id = "color-contrast" -> <<addColorContrastFixes(audit)>>
          [] audit.id = "heading-order" -> <<addHeadingOrderFixes(audit)>>
          [] OTHER -> <<>>
    ELSE IF c = "seo" THEN
        CASE audit.id = "meta-description" -> <<addMetaDescriptionFixes(audit)>>
          [] audit.id = "canonical" -> <<addCanonicalFixes(audit)>>
          [] OTHER -> <<>>
    ELSE
        CASE audit.id = "errors-in-console" -> <<addConsoleErrorsFixes(audit)>>
          [] audit.id = "valid-source-maps" -> <<addSourceMapsFixes(audit)>>
          [] audit.id = "bf-cache" -> <<addBFCacheFixes(audit)>>
          [] OTHER -> <<>>

\* the switches of src/unnamed/part_000
AltSwitch(c, audit) ==
    IF c = "performance" THEN
        CASE audit.id = "render-blocking-resources" -> <<addRenderBlockingFixes(audit)>>
          [] audit.id = "unminified-css" -> <<addMinifyCssFixes(audit)>>
          [] audit.id = "unminified-javascript" -> <<addMinifyJsFixes(audit)>>
          [] audit.id = "unused-css-rules" -> <<addUnusedCssFixes(audit)>>
          [] audit.id = "unused-javascript" -> <<addUnusedJsFixes(audit)>>
          [] audit.id = "modern-image-formats" -> <<addImageFormatFixes(audit)>>
          [] audit.id = "offscreen-images" -> <<addLazyLoadFixes(audit)>>
          [] audit.id = "uses-optimized-images" -> <<addImageOptimizationFixes(audit)>>
          [] audit.id = "document-title" -> <<addDocumentTitleFixes(audit)>>
          [] OTHER -> <<>>
    ELSE IF c = "accessibility" THEN
        CASE audit.id = "image-alt" -> <<addImageAltFixes(audit)>>
          [] audit.id = "color-contrast" -> <<alt_addColorContrastFixes(audit)>>
          [] audit.id = "label" -> <<addFormLabelFixes(audit)>>
          [] audit.id = "button-name" -> <<addButtonNameFixes(audit)>>
          [] audit.id = "link-name" -> <<addLinkNameFixes(audit)>>
          [] OTHER -> <<>>
    ELSE IF c = "seo" THEN
        CASE audit.id = "meta-description" -> <<alt_addMetaDescriptionFixes(audit)>>
          [] audit.id = "canonical" -> <<alt_addCanonicalFixes(audit)>>
          [] audit.id = "structured-data" -> <<addStructuredDataFixes(audit)>>
          [] OTHER -> <<>>
    ELSE
        CASE audit.id = "viewport" -> <<addViewportFixes(audit)>>
          [] audit.id = "http-status-code" -> <<addHttpStatusCodeFixes(audit)>>
          [] audit.id = "no-vulnerable-libraries" -> <<addVulnerableLibrariesFixes(audit)>>
          [] OTHER -> <<>>

\* the loop body dispatching on the id alone, whatever category holds the
\* reference
RefFixes_AnyCategory(im, report, c, ref) ==
    LET a == AuditAt(report, ref.id)
        Try(cat) == IF im = "lib" THEN LibSwitch(cat, Get(a)) ELSE AltSwitch(cat, Get(a))
    IN  IF Skipped(a) THEN <<>>
        ELSE IF "id" \notin DOMAIN Get(a) THEN <<>>
        ELSE Try("performance") \o Try("accessibility") \o Try("seo")
             \o Try("best-practices")

\* one iteration of `for (const ref of ...)`: the fixes it appends.  No
\* case of `switch (audit.id)` matches an object without an id
RefFixes(im, report, c, ref) ==
    LET a == AuditAt(report, ref.id)
    IN  IF Skipped(a) THEN <<>>
        ELSE IF "id" \notin DOMAIN Get(a) THEN <<>>
        ELSE IF im = "lib" THEN LibSwitch(c, Get(a)) ELSE AltSwitch(c, Get(a))

\* the whole loop over a category's auditRefs
RECURSIVE LoopFixes(_, _, _, _)
LoopFixes(im, report, c, refs) ==
    IF refs = <<>> THEN <<>>
    ELSE RefFixes(im, report, c, Head(refs)) \o LoopFixes(im, report, c, Tail(refs))

CategoryFixes(im, report, c) == LoopFixes(im, report, c, AuditRefs(report, c))

\* checkFrameworkSpecificIssues(): the fix it appends, if any
checkFrameworkSpecificIssues(report) ==
    LET unusedJs == AuditAt(report, "unused-javascript")
        hasItems ==
            IF unusedJs = Undefined THEN FALSE
            ELSE /\ ScoreLT(Get(unusedJs).score, FixThreshold)
                 /\ ~Nullish(Get(unusedJs).details)
                 /\ ~Nullish(Get(Get(unusedJs).details).items)
    IN  IF hasItems
        THEN LET nextJsChunks ==
                     SelectSeq(Get(Get(Get(unusedJs).details).items), IsNextJsChunk)
             IN  IF Len(nextJsChunks) > 0
                 THEN <<addNextJsOptimizationFixes(nextJsChunks)>>
                 ELSE <<>>
        ELSE <<>>

\* the performance pass with the framework check made before the loop
analyzePerformanceIssues_FrameworkFirst(im, report) ==
    (IF im = "lib" THEN checkFrameworkSpecificIssues(report) ELSE <<>>)
    \o CategoryFixes(im, report, "performance")

\* analyzePerformanceIssues(): the loop, then (src/lib only) the framework check
analyzePerformanceIssues(im, report) ==
    CategoryFixes(im, report, "performance")
    \o (IF im = "lib" THEN checkFrameworkSpecificIssues(report) ELSE <<>>)

\* addUnusedJavaScriptFixes is called on the audit's own details.items: a
\* reference of the performance category names an unused-javascript audit
\* that is not skipped and holds an items array
ReachesUnusedJsRule(im, report) ==
    LET refs == AuditRefs(report, "performance")
        a == AuditAt(report, "unused-javascript")
    IN  /\ im = "lib"
        /\ \E i \in 1..Len(refs) : refs[i].id = "unused-javascript"
        /\ ~Skipped(a)
        /\ ~Nullish(Get(a).details)
        /\ ~Nullish(Get(Get(a).details).items)

\* this.lhr after analyzePerformanceIssues(): the rule that calls an
\* in-place array method is addUnusedJavaScriptFixes, and details.items of
\* its audit is what the heap it leaves holds at reference 1
lhrAfterPerformance(im, report) ==
    IF ReachesUnusedJsRule(im, report)
    THEN LET a == report.audits["unused-javascript"]
             details == Get(a.details)
             after == [details EXCEPT
                          !.items = {addUnusedJavaScriptFixes(a).heap[1]}]
         IN  [report EXCEPT !.audits["unused-javascript"].details = {after}]
    ELSE report

----------------------------------------------------------------------------
(* formatOutput.                                                           *)

Priorities == <<"high", "medium", "low">>

\* const priorityOrder = { high: 0, medium: 1, low: 2 }
priorityOrder(p) == CASE p = "high" -> 0 [] p = "medium" -> 1 [] p = "low" -> 2

\* the sort by an engine whose sort is not stable: equal priorities come
\* out in reverse
SortByPriority_Unstable(fs) ==
    SortStable(fs, [i \in 1..Len(fs) |->
                       priorityOrder(fs[i].priority) * (Len(fs) + 1) + (Len(fs) - i)])

\* this.fixes.sort((a, b) => priorityOrder[a.priority] - priorityOrder[b.priority])
SortByPriority(fs) ==
    SortStable(fs, [i \in 1..Len(fs) |-> priorityOrder(fs[i].priority)])

Line(kind, lang, text) == [kind |-> kind, lang |-> lang, text |-> text]

HeaderLine == Line("h1", "", Lit("# Lighthouse Fix Suggestions"))

NoIssuesLine(im) ==
    Line("text", "",
         IF im = "lib" THEN Lit("No issues found! Great job!")
         ELSE Lit("No issues found that need fixing! Great job!"))

SectionLine(priority) ==
    Line("h2", "",
         CASE priority = "high" -> Lit("## (red) High Priority")
           [] priority = "medium" -> Lit("## (yellow) Medium Priority")
           [] priority = "low" -> Lit("## (green) Low Priority"))

RECURSIVE SnippetLines(_)
SnippetLines(snippets) ==
    IF snippets = <<>> THEN <<>>
    ELSE <<Line("h4", "", Lit(Head(snippets).title)),
           Line("code", Head(snippets).type, Head(snippets).code)>>
         \o SnippetLines(Tail(snippets))

\* `if (fix.diagnosis)`: undefined and '' are falsy
HasDiagnosis(fix) == fix.diagnosis # {} /\ Get(fix.diagnosis) # Lit("")

FixLines(im, fix) ==
    <<Line("h3", "", fix.title),
      Line("impact", "", Lit(fix.impact)),
      Line("text", "", Lit(fix.description))>>
    \o (IF im = "lib" /\ HasDiagnosis(fix)
        THEN <<Line("diagnosis", "", Get(fix.diagnosis))>> ELSE <<>>)
    \o SnippetLines(fix.fixes)
    \o <<Line("hr", "", Lit("---"))>>

RECURSIVE AllFixLines(_, _)
AllFixLines(im, fs) ==
    IF fs = <<>> THEN <<>>
    ELSE FixLines(im, Head(fs)) \o AllFixLines(im, Tail(fs))

\* one pass of `for (const [priority, items] of Object.entries(grouped))`
GroupLines(im, fs, priority) ==
    LET InGroup(f) == f.priority = priority
        items == SelectSeq(fs, InGroup)
    IN  IF Len(items) = 0 THEN <<>>
        ELSE <<SectionLine(priority)>> \o AllFixLines(im, items)

\* the array this.fixes holds when formatOutput returns
formatOutputFixes(fs) == IF Len(fs) = 0 THEN fs ELSE SortByPriority(fs)

\* the string formatOutput returns
formatOutput(im, fs) ==
    IF Len(fs) = 0 THEN <<HeaderLine, NoIssuesLine(im)>>
    ELSE LET sorted == SortByPriority(fs)
         IN  <<HeaderLine>>
             \o GroupLines(im, sorted, "high")
             \o GroupLines(im, sorted, "medium")
             \o GroupLines(im, sorted, "low")

----------------------------------------------------------------------------
(* The reports the model loads.                                            *)

Item(url, wastedBytes, totalBytes, type, nodeLabel, selector, description,
     sourceUrl, rows) ==
    [url |-> url, wastedBytes |-> wastedBytes, totalBytes |-> totalBytes,
     type |-> type, nodeLabel |-> nodeLabel, selector |-> selector,
     description |-> description, sourceUrl |-> sourceUrl, items |-> rows]

\* an item of the unused-javascript table
JsItem(url, wastedBytes, totalBytes) ==
    Item(url, wastedBytes, totalBytes, "", None, None, None, None, None)

\* an item naming a DOM node
NodeItem(type, nodeLabel) ==
    Item(None, None, None, type, nodeLabel, None, None, None, None)

\* an item naming a DOM node and its selector
SelectedItem(type, nodeLabel, selector) ==
    Item(None, None, None, type, nodeLabel, selector, None, None, None)

\* an item of the console errors table
ErrorItem(description, sourceUrl) ==
    Item(None, None, None, "", None, None, description, sourceUrl, None)

\* an item holding a nested table
TableItem(rows) ==
    Item(None, None, None, "table", None, None, None, None, rows)

Row(subpart, duration) == [subpart |-> subpart, duration |-> duration]

\* a URL of 127 characters, longer than the error analysis shows
LongUrl ==
    "https://example.com/aaaaaaaaaaaaaaaaaaaaaaaaaaaaaaaaaaaaaaaaaaaaaaaaaaaaaaaaaaaaaaaaaaaaaaaaaaaaaaaaaaaaaaaaaaaaaaaaaaaa/app.js"

Details(type, items, overallSavingsMs) ==
    [type |-> type, items |-> items, overallSavingsMs |-> overallSavingsMs]

Audit(id, score, mode, numericValue, details) ==
    [id |-> id, score |-> score, scoreDisplayMode |-> mode,
     description |-> "About " \o id, numericValue |-> numericValue,
     details |-> details]

Ref(id) == [id |-> id]

AppJs == JsItem(Some(<<"https:", "", "example.com", "app.js">>), Some(40000), Some(90000))
VendorJs == JsItem(Some(<<"https:", "", "cdn.example.net", "vendor.js">>), Some(1536), Some(3000))
NextChunkJs ==
    JsItem(Some(<<"https:", "", "example.com", "_next", "static", "chunks", "main.js">>),
           Some(20000), Some(50000))
ExtensionJs ==
    JsItem(Some(<<"chrome-extension:", "", "abcdef", "content.js">>), Some(9000), Some(9000))
OtherExtensionJs ==
    JsItem(Some(<<"chrome-extension:", "", "ghijkl", "inject.js">>), None, Some(700))
NoUrlJs == JsItem(None, Some(500), None)
\* 'https://e.com/r?u=chrome-extension://abc/c.js': the marker inside a
\* first-party URL
RedirectJs ==
    JsItem(Some(<<"https:", "", "e.com", "r?u=chrome-extension:", "", "abc", "c.js">>),
           Some(3072), Some(6000))
EmptyUrlJs == JsItem(Some(EmptyUrl), Some(2048), Some(4096))

\* the items an unused-javascript table is built from
JsItems ==
    {AppJs, VendorJs, NextChunkJs, ExtensionJs, OtherExtensionJs, NoUrlJs, EmptyUrlJs,
     RedirectJs}

\* the sequences over S of length at most n
SeqsUpTo(S, n) == UNION {[1..k -> S] : k \in 0..n}

\* the audit IDs of the dispatch table of src/lib/fix-generator.js
LibIds ==
    [performance |-> {"server-response-time", "unused-javascript", "speed-index",
                      "lcp-breakdown-insight", "document-latency-insight",
                      "max-potential-fid"},
     accessibility |-> {"color-contrast", "heading-order"},
     seo |-> {"meta-description", "canonical"},
     bp |-> {"errors-in-console", "valid-source-maps", "bf-cache"}]

\* the audit IDs of the dispatch table of src/unnamed/part_000
AltIds ==
    [performance |-> {"render-blocking-resources", "unminified-css",
                      "unminified-javascript", "unused-css-rules",
                      "unused-javascript", "modern-image-formats",
                      "offscreen-images", "uses-optimized-images", "document-title"},
     accessibility |-> {"image-alt", "color-contrast", "label", "button-name",
                        "link-name"},
     seo |-> {"meta-description", "canonical", "structured-data"},
     bp |-> {"viewport", "http-status-code", "no-vulnerable-libraries"}]

TableKey(c) == IF c = "best-practices" THEN "bp" ELSE c

\* the IDs generator im dispatches on in category c
TableIds(im, c) == IF im = "lib" THEN LibIds[TableKey(c)] ELSE AltIds[TableKey(c)]

CategorySet == {Categories[i] : i \in 1..Len(Categories)}

\* every ID of either table, and one that is in neither
AuditIds ==
    UNION {LibIds[TableKey(c)] \cup AltIds[TableKey(c)] : c \in CategorySet}
    \cup {"uses-https"}

\* scores of the model's audits: none, null, and 0, 0.5, 0.89, 0.9, 1
Scores == {Undefined, None, Some(0), Some(50), Some(89), Some(90), Some(100)}

\* numericValue of the two metric audits: absent, and the values around
\* the tier boundaries
TtfbValues == {None} \cup {Some(v) : v \in {0, 350, 400, 401, 600, 601, 1000, 1001, 1200}}
FidValues == {None} \cup {Some(v) : v \in {0, 50, 51, 100, 101, 200, 201, 300}}

\* details as Lighthouse typically reports them for the audit
TypicalDetails(id) ==
    CASE id = "unused-javascript" ->
             Some(Details("opportunity", Some(<<AppJs, ExtensionJs>>), Some(150)))
      [] id = "document-latency-insight" ->
             Some(Details("checklist", None, Some(320)))
      [] id = "lcp-breakdown-insight" ->
             Some(Details("list",
                 Some(<<TableItem(Some(<<Row("timeToFirstByte", Some(812)),
                                         Row("elementRenderDelay", Some(95))>>)),
                        SelectedItem("node", Some("Hero image"),
                                     Some("main > img.hero"))>>),
                 None))
      [] id \in {"color-contrast", "heading-order"} ->
             Some(Details("table",
                 Some(<<NodeItem("", Some("Sign up")), NodeItem("", Some("Pricing"))>>),
                 None))
      [] id = "errors-in-console" ->
             Some(Details("table",
                 Some(<<ErrorItem(Some("Failed to load resource"),
                                  Some("https://example.com/api")),
                        ErrorItem(Some("Boom"), Some(LongUrl))>>),
                 None))
      [] id \in {"valid-source-maps", "bf-cache"} ->
             Some(Details("table", Some(<<NodeItem("", None), NodeItem("", None)>>), None))
      [] OTHER -> None

TypicalValue(id) ==
    CASE id = "server-response-time" -> Some(720)
      [] id = "max-potential-fid" -> Some(180)
      [] OTHER -> None

\* the audit with this id as a report typically holds it (typical = TRUE),
\* or stripped of numericValue and details
AuditOf(id, score, typical) ==
    Audit(id, score, "numeric",
          IF typical THEN TypicalValue(id) ELSE None,
          IF typical THEN TypicalDetails(id) ELSE None)

Report(categories, audits) == [categories |-> categories, audits |-> audits]

EmptyMap == [x \in {} |-> {}]

\* reports with one reference: any category, any id, any score (or no audit
\* behind the reference), the other categories absent
SingleReports ==
    {Report(c :> [auditRefs |-> <<Ref(id)>>], id :> AuditOf(id, score, typical)) :
         c \in CategorySet, id \in AuditIds, score \in Scores, typical \in BOOLEAN}
    \cup {Report(c :> [auditRefs |-> <<Ref(id)>>], EmptyMap) :
              c \in CategorySet, id \in AuditIds}

\* reports whose performance category references one failing metric audit
MetricReports ==
    {Report("performance" :> [auditRefs |-> <<Ref("server-response-time")>>],
            "server-response-time" :>
                Audit("server-response-time", Some(0), "numeric", v, None)) :
         v \in TtfbValues}
    \cup
    {Report("performance" :> [auditRefs |-> <<Ref("max-potential-fid")>>],
            "max-potential-fid" :>
                Audit("max-potential-fid", Some(0), "numeric", v, None)) :
         v \in FidValues}

\* reports holding an unused-javascript audit with any item list, referenced
\* by the performance category or by none
UnusedJsReports ==
    {Report("performance" :>
                [auditRefs |-> IF referenced THEN <<Ref("unused-javascript")>> ELSE <<>>],
            "unused-javascript" :>
                Audit("unused-javascript", score, "numeric", None,
                      Some(Details("opportunity", Some(items), ms)))) :
         referenced \in BOOLEAN, score \in {Undefined, None, Some(0), Some(90)},
         items \in SeqsUpTo(JsItems, MaxItems), ms \in {None, Some(0), Some(150)}}

\* the references a longer report is built from: failing audits of both
\* dispatch tables, of every priority, in their own categories
ChainRefs ==
    {<<"performance", "server-response-time">>, <<"performance", "speed-index">>,
     <<"performance", "render-blocking-resources">>, <<"performance", "offscreen-images">>,
     <<"accessibility", "heading-order">>, <<"seo", "canonical">>,
     <<"best-practices", "valid-source-maps">>}

\* the references of chain that belong to category c, in order
ChainRefsOf(chain, c) ==
    LET InC(e) == e[1] = c
        mine == SelectSeq(chain, InC)
    IN  [i \in 1..Len(mine) |-> Ref(mine[i][2])]

\* reports with up to MaxRefs references to failing audits, all four
\* categories present
ChainReports ==
    {Report([c \in CategorySet |-> [auditRefs |-> ChainRefsOf(chain, c)]],
            [id \in {chain[i][2] : i \in 1..Len(chain)} |-> AuditOf(id, Some(0), TRUE)]) :
         chain \in SeqsUpTo(ChainRefs, MaxRefs)}

\* reports with failing audits in all four categories, two references in
\* performance and in accessibility in either order, the unused-javascript
\* audit holding a Next.js chunk
EmissionReports ==
    {Report(("performance" :>
                [auditRefs |-> IF perfSwapped
                               THEN <<Ref("unused-javascript"), Ref("speed-index")>>
                               ELSE <<Ref("speed-index"), Ref("unused-javascript")>>])
            @@ ("accessibility" :>
                [auditRefs |-> IF a11ySwapped
                               THEN <<Ref("color-contrast"), Ref("heading-order")>>
                               ELSE <<Ref("heading-order"), Ref("color-contrast")>>])
            @@ ("seo" :> [auditRefs |-> <<Ref("canonical")>>])
            @@ ("best-practices" :> [auditRefs |-> <<Ref("valid-source-maps")>>]),
            [id \in {"speed-index", "unused-javascript", "heading-order",
                     "color-contrast", "canonical", "valid-source-maps"} |->
                IF id = "unused-javascript"
                THEN Audit(id, Some(0), "numeric", None,
                           Some(Details("opportunity", Some(<<NextChunkJs, AppJs>>),
                                        Some(150))))
                ELSE AuditOf(id, Some(0), TRUE)]) :
         perfSwapped \in BOOLEAN, a11ySwapped \in BOOLEAN}

\* reports whose performance category references a failing
\* document-latency-insight audit: without details, or with savings
\* absent, 0 or 320 ms
DocumentLatencyReports ==
    {Report("performance" :> [auditRefs |-> <<Ref("document-latency-insight")>>],
            "document-latency-insight" :>
                Audit("document-latency-insight", Some(0), "numeric", None, details)) :
         details \in {None} \cup {Some(Details("checklist", None, ms)) :
                                     ms \in {None, Some(0), Some(320)}}}

\* the LCP element of a breakdown: absent, or a node with or without a
\* label and a selector
BreakdownNodes ==
    {<<>>} \cup {<<SelectedItem("node", label, selector)>> :
                     label \in {Undefined, None, Some(""), Some("Hero image")},
                     selector \in {None, Some(""), Some("main > img.hero")}}

\* the timing table of a breakdown: absent, without rows, without a TTFB
\* row, or with a TTFB row with or without a duration
BreakdownTables ==
    {<<>>, <<TableItem(None)>>,
     <<TableItem(Some(<<Row("elementRenderDelay", Some(95))>>))>>}
    \cup {<<TableItem(Some(<<Row("elementRenderDelay", Some(95)),
                             Row("timeToFirstByte", duration)>>))>> :
              duration \in {Undefined, None, Some(0), Some(812)}}

\* reports whose performance category references a failing LCP breakdown
BreakdownReports ==
    {Report("performance" :> [auditRefs |-> <<Ref("lcp-breakdown-insight")>>],
            "lcp-breakdown-insight" :>
                Audit("lcp-breakdown-insight", Some(0), "numeric", None,
                      Some(Details("list", Some(table \o node), None)))) :
         table \in BreakdownTables, node \in BreakdownNodes}

\* the errors of a console errors table: with or without a description and
\* a URL, the URL shorter or longer than the error analysis shows
ConsoleErrors ==
    {ErrorItem(description, sourceUrl) :
         description \in {Undefined, None, Some(""), Some("Boom")},
         sourceUrl \in {None, Some(""), Some("https://example.com/api"),
                        Some(LongUrl)}}

\* reports whose best-practices category references failing console errors
ConsoleErrorsReports ==
    {Report("best-practices" :> [auditRefs |-> <<Ref("errors-in-console")>>],
            "errors-in-console" :>
                Audit("errors-in-console", Some(0), "binary", None,
                      Some(Details("table", Some(items), None)))) :
         items \in SeqsUpTo(ConsoleErrors, 1)}

\* reports whose accessibility category references a failing audit of DOM
\* nodes: no item, or a first item without a node, with a label of null,
\* '' or a text
NodeLabelReports ==
    {Report("accessibility" :> [auditRefs |-> <<Ref(id)>>],
            id :> Audit(id, Some(0), "binary", None,
                        Some(Details("table", Some(items), None)))) :
         id \in {"color-contrast", "heading-order"},
         items \in {<<>>} \cup {<<NodeItem("", label)>> :
                                   label \in {Undefined, None, Some(""), Some("Sign up")}}}

\* reports with a reference whose id names a property every object
\* inherits and no audit: alone in any category, or before a failing
\* canonical audit
InheritedKeyReports ==
    {Report(c :> [auditRefs |-> <<Ref(key)>>], EmptyMap) :
         c \in CategorySet, key \in {"constructor", "toString", "__proto__"}}
    \cup
    {Report("seo" :> [auditRefs |-> <<Ref(key), Ref("canonical")>>],
            "canonical" :> AuditOf("canonical", Some(0), FALSE)) :
         key \in {"constructor", "toString", "__proto__"}}

Reports ==
    SingleReports \cup MetricReports \cup UnusedJsReports \cup ChainReports
    \cup EmissionReports \cup DocumentLatencyReports \cup BreakdownReports
    \cup ConsoleErrorsReports \cup NodeLabelReports \cup InheritedKeyReports

----------------------------------------------------------------------------
(* The FixGenerator as a state machine: Init is the state the constructor  *)
(* leaves, generate() runs its five calls in order.                        *)

(* The LighthouseAnalyzer (src/unnamed/part_001).                          *)

FetchTime == Some("2024-05-01T10:00:00.000Z")

\* a report as the analyzer reads it, fetched at FetchTime: categoryOrder
\* and auditOrder are the key orders of the categories and audits objects,
\* which Object.values and Object.entries follow
AReport(categoryOrder, categories, auditOrder, audits) ==
    [fetchTime |-> FetchTime, categoryOrder |-> categoryOrder,
     categories |-> categories, auditOrder |-> auditOrder, audits |-> audits]

\* a category with the fields getCategoryScores reads
Category(title, score, auditRefs) ==
    [title |-> title, score |-> score, auditRefs |-> auditRefs]

\* 0.5, in hundredths: the default of options.minScore
DefaultMinScore == 50

\* this.options, as the constructor sets it: `options.minScore || 0.5`
AnalyzerOptions(args) ==
    [category |-> IF args.category = {""} THEN None ELSE args.category,
     minScore |-> OrDefaultDec(args.minScore, Hundredths(DefaultMinScore))]

RECURSIVE Concat(_)
Concat(ss) == IF ss = <<>> THEN <<>> ELSE Head(ss) \o Concat(Tail(ss))

\* the seenIds filter keeping the last reference to each id
Deduplicate_LastWins(refs) ==
    LET at == [i \in 1..Len(refs) |-> [i |-> i, ref |-> refs[i]]]
        Last(e) == \A j \in (e.i + 1)..Len(refs) : refs[j].id # e.ref.id
        kept == SelectSeq(at, Last)
    IN  [i \in 1..Len(kept) |-> kept[i].ref]

\* the filter with the seenIds set: the first reference to each id
Deduplicate(refs) ==
    LET at == [i \in 1..Len(refs) |-> [i |-> i, ref |-> refs[i]]]
        First(e) == \A j \in 1..(e.i - 1) : refs[j].id # e.ref.id
        kept == SelectSeq(at, First)
    IN  [i \in 1..Len(kept) |-> kept[i].ref]

\* `audit.score < this.options.minScore`: false of an audit without a
\* score, a null score compares as 0
ScoreBelow(score, minScore) ==
    IF score = Undefined THEN FALSE
    ELSE LessThanDec(IF score = None THEN 0 ELSE Get(score), minScore)

\* audit.scoreDisplayMode === mode
ModeIs(audit, mode) ==
    "scoreDisplayMode" \in DOMAIN audit /\ audit.scoreDisplayMode = mode

\* the filter callback of getFailedAudits with the null test left out
IsFailedAudit_NoNullTest(audit, minScore) ==
    /\ ScoreBelow(Prop(audit, "score"), minScore)
    /\ ~ModeIs(audit, "manual")
    /\ ~ModeIs(audit, "notApplicable")

\* the filter callback of getFailedAudits
IsFailedAudit(audit, minScore) ==
    /\ Prop(audit, "score") # None
    /\ ScoreBelow(Prop(audit, "score"), minScore)
    /\ ~ModeIs(audit, "manual")
    /\ ~ModeIs(audit, "notApplicable")

\* the arrays a query of the analyzer can reach: the auditRefs of the
\* categories, the array of the k-th category at reference k
AuditRefsHeap(report) ==
    [k \in 1..Len(report.categoryOrder) |->
        report.categories[report.categoryOrder[k]].auditRefs]

\* the reference of category.auditRefs
AuditRefsRef(report, id) ==
    CHOOSE k \in 1..Len(report.categoryOrder) : report.categoryOrder[k] = id

\* the report with the auditRefs arrays as a query left them
WithAuditRefs(report, heap) ==
    [report EXCEPT !.categories =
        [id \in DOMAIN @ |-> [@[id] EXCEPT !.auditRefs = heap[AuditRefsRef(report, id)]]]]

RECURSIVE PushAuditRefs(_, _, _, _)
\* `auditRefs.push(...category.auditRefs)` for the k-th category and
\* those behind it
PushAuditRefs(heap, ref, report, k) ==
    IF k > Len(report.categoryOrder) THEN ArrayResult(heap, ref)
    ELSE PushAuditRefs(
             ArrayPush(heap, ref,
                       heap[AuditRefsRef(report, report.categoryOrder[k])]).heap,
             ref, report, k + 1)

\* this.lhr.categories[id] is a property the categories object only
\* inherits: truthy, and without auditRefs
InheritedCategory(report, categoryId) ==
    /\ ~Nullish(categoryId) /\ categoryId # {""}
    /\ Get(categoryId) \notin DOMAIN report.categories
    /\ Get(categoryId) \in ObjectPrototypeKeys

\* getFailedAudits(categoryId): [threw, message, value, heap].  auditRefs
\* starts as a new array; with a categoryId the variable is pointed at the
\* array of that category, without one the arrays of all categories are
\* pushed onto the new array; filter() and map() give new arrays.  Two
\* TypeErrors end the call: auditRefs.filter on the undefined auditRefs
\* of an inherited property taken for the category, and audit.score read
\* by the callback of undefined when a reference has no audit.  heap
\* holds the auditRefs arrays of the report afterwards.
getFailedAudits(report, options, categoryId) ==
    LET fresh == ArrayNew(AuditRefsHeap(report), <<>>)
        collected ==
            IF ~Nullish(categoryId) /\ categoryId # {""}
            THEN IF Get(categoryId) \in DOMAIN report.categories
                 THEN ArrayResult(fresh.heap, AuditRefsRef(report, Get(categoryId)))
                 ELSE fresh
            ELSE PushAuditRefs(fresh.heap, fresh.ref, report, 1)
        deduplicated == ArrayFilter(collected.heap, collected.ref,
                                    Deduplicate(collected.heap[collected.ref]))
        auditRefs == deduplicated.heap[deduplicated.ref]
        mapped == [i \in 1..Len(auditRefs) |-> AuditAt(report, auditRefs[i].id)]
        Fails(a) == IsFailedAudit(Get(a), options.minScore)
    IN  IF InheritedCategory(report, categoryId)
        THEN [threw |-> TRUE, value |-> <<>>, heap |-> fresh.heap,
              message |-> "Cannot read properties of undefined (reading 'filter')"]
        ELSE IF \E i \in 1..Len(mapped) : mapped[i] = Undefined
        THEN [threw |-> TRUE, value |-> <<>>, heap |-> deduplicated.heap,
              message |-> "Cannot read properties of undefined (reading 'score')"]
        ELSE LET kept == SelectSeq(mapped, Fails)
             IN  [threw |-> FALSE, value |-> [i \in 1..Len(kept) |-> Get(kept[i])],
                  heap |-> deduplicated.heap, message |-> ""]

NoCall == [called |-> FALSE, categoryId |-> None, threw |-> FALSE, value |-> <<>>]

\* audit.details.type === 'opportunity' on a present details object
IsOpportunityType(details) == details.type = "opportunity"

\* the test of getOpportunities: `audit.score < 1` holds for a null score
\* and fails for an audit without a score
IsOpportunity(audit) ==
    /\ ~Nullish(audit.details)
    /\ IsOpportunityType(Get(audit.details))
    /\ ScoreLT(audit.score, 100)

\* the record getOpportunities pushes for an audit
Opportunity(audit) ==
    LET details == Get(audit.details)
    IN  [id |-> audit.id, title |-> audit.title,
         description |-> audit.description, score |-> audit.score,
         wastedMs |-> OrDefault(details.overallSavingsMs, 0),
         wastedBytes |-> OrDefault(details.overallSavingsBytes, 0),
         items |-> IF Nullish(details.items) THEN 0 ELSE Len(Get(details.items))]

\* the sort with the comparator turned round: a.wastedMs - b.wastedMs
SortByWastedMs_Ascending(opps) ==
    SortStable(opps, [i \in 1..Len(opps) |-> opps[i].wastedMs])

\* opportunities.sort((a, b) => b.wastedMs - a.wastedMs)
SortByWastedMs(opps) ==
    SortStable(opps, [i \in 1..Len(opps) |-> 0 - opps[i].wastedMs])

\* Object.values(this.lhr.audits)
AuditValues(report) ==
    [i \in 1..Len(report.auditOrder) |-> report.audits[report.auditOrder[i]]]

getOpportunities(report) ==
    LET kept == SelectSeq(AuditValues(report), IsOpportunity)
    IN  SortByWastedMs([i \in 1..Len(kept) |-> Opportunity(kept[i])])

\* the ids getDiagnostics looks up, in order
diagnosticIds ==
    <<"bootup-time", "mainthread-work-breakdown", "long-tasks", "dom-size",
      "network-requests", "total-byte-weight">>

\* the record getDiagnostics pushes for an audit
Diagnostic(audit) ==
    [id |-> audit.id, title |-> audit.title, description |-> audit.description,
     score |-> audit.score, displayValue |-> audit.displayValue]

\* getDiagnostics(): `audit && audit.score < 1` over diagnosticIds
getDiagnostics(report) ==
    LET Kept(id) == /\ AuditAt(report, id) # Undefined
                    /\ ScoreLT(Get(AuditAt(report, id)).score, 100)
        kept == SelectSeq(diagnosticIds, Kept)
    IN  [i \in 1..Len(kept) |-> Diagnostic(report.audits[kept[i]])]

\* the keys of the vitals object of getCoreWebVitals, with the audit ids
VitalKeys ==
    <<[key |-> "lcp", id |-> "largest-contentful-paint"],
      [key |-> "fid", id |-> "max-potential-fid"],
      [key |-> "cls", id |-> "cumulative-layout-shift"],
      [key |-> "fcp", id |-> "first-contentful-paint"],
      [key |-> "tbt", id |-> "total-blocking-time"],
      [key |-> "si", id |-> "speed-index"]>>

\* passed, were every rating but 'fail' to count
IsPassed_NotFail(rating) == rating # Some("fail")

\* rating === 'pass'
IsPassed(rating) == rating = Some("pass")

\* the entry getCoreWebVitals stores under key for a present audit
Vital(key, audit) ==
    [key |-> key, name |-> audit.title, value |-> audit.numericValue,
     unit |-> audit.numericUnit, displayValue |-> audit.displayValue,
     rating |-> audit.rating, passed |-> IsPassed(audit.rating)]

\* getCoreWebVitals(): the entries of the results object in key order
getCoreWebVitals(report) ==
    LET Present(k) == k.id \in DOMAIN report.audits
        kept == SelectSeq(VitalKeys, Present)
    IN  [i \in 1..Len(kept) |-> Vital(kept[i].key, report.audits[kept[i].id])]

NoQuery == [called |-> FALSE, value |-> <<>>]

\* the outcome of getSummary(), getDiagnostics() or formatMarkdown()
Result(query, threw, value) ==
    [called |-> TRUE, query |-> query, threw |-> threw, value |-> value]

NoResult == [called |-> FALSE, query |-> "none", threw |-> FALSE, value |-> <<>>]

NoAnalyzer == /\ alhr = AReport(<<>>, EmptyMap, <<>>, EmptyMap)
              /\ aargs = [category |-> None, minScore |-> None]
              /\ aoptions = AnalyzerOptions(aargs)
              /\ afailed = NoCall
              /\ aopps = NoQuery
              /\ avitals = NoQuery
              /\ aresult = NoResult

\* the argument and the options of a command
Args(report, category, outputOption, minScore, format, verbose) ==
    [report |-> report, category |-> category, output |-> outputOption,
     minScore |-> minScore, format |-> format, verbose |-> verbose]

\* a file system: the files by path, the directories, the listing of the
\* reports directory and the operation that fails on it
FileSystem(files, dirs, listing, fault) ==
    [files |-> files, dirs |-> dirs, listing |-> listing, fault |-> fault]

\* no command is run
NoCommand ==
    /\ cmd = "none"
    /\ cargs = Args(None, None, None, Codes("0.5"), "markdown", FALSE)
    /\ fsys = FileSystem(EmptyMap, {}, <<>>, "none")
    /\ cpc = "none"
    /\ reportPath = None
    /\ content = <<>>
    /\ console = <<>>
    /\ effects = <<>>
    /\ exitCode = None

Init ==
    /\ impl \in Impls
    /\ lhr \in Reports
    /\ fixes = <<>>
    /\ pc = "idle"
    /\ output = <<>>
    /\ calls = 0
    /\ NoAnalyzer
    /\ NoCommand

\* generate() is called and runs analyzePerformanceIssues()
AnalyzePerformanceIssues ==
    /\ pc = "idle"
    /\ calls < MaxGenerate
    /\ calls' = calls + 1
    /\ fixes' = fixes \o analyzePerformanceIssues(impl, lhr)
    /\ lhr' = lhrAfterPerformance(impl, lhr)
    /\ pc' = "performance"
    /\ UNCHANGED <<impl, output>>
    /\ UNCHANGED anVars
    /\ UNCHANGED cmdVars

AnalyzeAccessibilityIssues ==
    /\ pc = "performance"
    /\ fixes' = fixes \o CategoryFixes(impl, lhr, "accessibility")
    /\ pc' = "accessibility"
    /\ UNCHANGED <<impl, lhr, output, calls>>
    /\ UNCHANGED anVars
    /\ UNCHANGED cmdVars

AnalyzeSeoIssues ==
    /\ pc = "accessibility"
    /\ fixes' = fixes \o CategoryFixes(impl, lhr, "seo")
    /\ pc' = "seo"
    /\ UNCHANGED <<impl, lhr, output, calls>>
    /\ UNCHANGED anVars
    /\ UNCHANGED cmdVars

AnalyzeBestPracticesIssues ==
    /\ pc = "seo"
    /\ fixes' = fixes \o CategoryFixes(impl, lhr, "best-practices")
    /\ pc' = "best-practices"
    /\ UNCHANGED <<impl, lhr, output, calls>>
    /\ UNCHANGED anVars
    /\ UNCHANGED cmdVars

\* formatOutput() sorts this.fixes in place and generate() returns its string
FormatOutput ==
    /\ pc = "best-practices"
    /\ output' = formatOutput(impl, fixes)
    /\ fixes' = formatOutputFixes(fixes)
    /\ pc' = "idle"
    /\ UNCHANGED <<impl, lhr, calls>>
    /\ UNCHANGED anVars
    /\ UNCHANGED cmdVars

Next ==
    \/ AnalyzePerformanceIssues
    \/ AnalyzeAccessibilityIssues
    \/ AnalyzeSeoIssues
    \/ AnalyzeBestPracticesIssues
    \/ FormatOutput

Spec == Init /\ [][Next]_vars

----------------------------------------------------------------------------
(* The LighthouseAnalyzer as a state machine: InitAnalyzer is the state    *)
(* the constructor leaves, every query is an action.                       *)

\* details of an audit the analyzer ranks
OpportunityDetails(type, overallSavingsMs) ==
    [type |-> type, items |-> Some(<<>>), overallSavingsMs |-> overallSavingsMs,
     overallSavingsBytes |-> overallSavingsMs]

\* an audit with the fields the queries read; an audit without a
\* numericValue has no displayValue
AnalyzerAudit(id, score, numericValue, rating, details) ==
    [id |-> id, title |-> "Title of " \o id, description |-> "About " \o id,
     score |-> score, scoreDisplayMode |-> "numeric",
     numericValue |-> numericValue, numericUnit |-> Some("millisecond"),
     displayValue |-> IF Nullish(numericValue) THEN Undefined ELSE Some("1.2 s"),
     rating |-> rating, details |-> details]

UsesHttps(score, mode) ==
    [AnalyzerAudit("uses-https", score, None, None, None) EXCEPT !.scoreDisplayMode = mode]
ImageAlt(score, mode) ==
    [AnalyzerAudit("image-alt", score, None, None, None) EXCEPT !.scoreDisplayMode = mode]

\* reports with two categories, in either key order, over two audits: one
\* of any score, or none, or of any display mode, the other with or
\* without a score or for manual checking; some references name an audit
\* the report does not hold
AnalyzerReports ==
    {AReport(order,
             [c \in {"performance", "seo"} |->
                 Category("Title of " \o c, Some(50),
                          IF c = "performance" THEN perfRefs ELSE seoRefs)],
             <<"uses-https", "image-alt">>,
             ("uses-https" :> a) @@ ("image-alt" :> b)) :
         order \in {<<"performance", "seo">>, <<"seo", "performance">>},
         perfRefs \in SeqsUpTo({Ref("uses-https"), Ref("image-alt"), Ref("removed-audit")},
                               MaxAnalyzerRefs),
         seoRefs \in {<<>>, <<Ref("image-alt"), Ref("uses-https")>>},
         a \in {UsesHttps(score, "binary") :
                   score \in {Undefined, None, Some(0), Some(40), Some(100)}}
               \cup {UsesHttps(Some(40), mode) : mode \in {"manual", "notApplicable"}},
         b \in {ImageAlt(None, "numeric"), ImageAlt(Some(40), "numeric"),
                ImageAlt(Some(40), "manual")}}

\* reports of two failing audits whose performance category references
\* an id that names a property every object inherits and no audit
InheritedKeyAnalyzerReports ==
    {AReport(<<"performance", "seo">>,
             [c \in {"performance", "seo"} |->
                 Category("Title of " \o c, Some(50),
                          IF c = "performance" THEN perfRefs
                          ELSE <<Ref("image-alt"), Ref("uses-https")>>)],
             <<"uses-https", "image-alt">>,
             ("uses-https" :> UsesHttps(Some(40), "binary"))
             @@ ("image-alt" :> ImageAlt(Some(40), "numeric"))) :
         perfRefs \in {<<Ref("uses-https"), Ref("constructor")>>,
                       <<Ref("toString"), Ref("uses-https")>>,
                       <<Ref("__proto__")>>}}

\* the options `gl analyze` may pass: --min-score absent or 0, 0.41, 1,
\* or --category seo
AnalyzerArgs ==
    [category : {None},
     minScore : {None, Some(Hundredths(0)), Some(Hundredths(41)),
                 Some(Hundredths(100))}]
    \cup {[category |-> Some("seo"), minScore |-> None]}

NoGenerator ==
    /\ impl = "lib"
    /\ lhr = Report(EmptyMap, EmptyMap)
    /\ fixes = <<>>
    /\ pc = "idle"
    /\ output = <<>>
    /\ calls = 0

OpportunityIds == {"render-blocking-resources", "unused-css-rules", "uses-text-compression"}

\* what an audit of an opportunity report may be: without details, a
\* table, a passing opportunity, one with a null score, one without a
\* score, and failing ones with savings absent, 0, 150 and 300 ms
OpportunityAudits(id) ==
    {AnalyzerAudit(id, Some(0), None, None, None),
     AnalyzerAudit(id, Undefined, None, None, Some(OpportunityDetails("opportunity", Some(150)))),
     AnalyzerAudit(id, Some(0), None, None, Some(OpportunityDetails("table", Some(300)))),
     AnalyzerAudit(id, Some(100), None, None, Some(OpportunityDetails("opportunity", Some(300)))),
     AnalyzerAudit(id, None, None, None, Some(OpportunityDetails("opportunity", Some(150))))}
    \cup {AnalyzerAudit(id, Some(50), None, None, Some(OpportunityDetails("opportunity", ms))) :
             ms \in {None, Some(0), Some(150), Some(300)}}

\* the orderings of a set of keys
Orderings(S) ==
    {o \in [1..Cardinality(S) -> S] : \A i, j \in 1..Cardinality(S) : i # j => o[i] # o[j]}

\* reports for getOpportunities: three audits in any key order, no category
OpportunityReports ==
    {AReport(<<>>, EmptyMap, order, audits) :
         order \in Orderings(OpportunityIds),
         audits \in {a \in [OpportunityIds -> UNION {OpportunityAudits(id) : id \in OpportunityIds}] :
                        \A id \in OpportunityIds : a[id].id = id}}

VitalIds == {VitalKeys[i].id : i \in 1..Len(VitalKeys)}

\* the ratings of a vitals report: all 'pass', all 'fail', none, or mixed
RatingOf(pattern, id) ==
    CASE pattern = "pass" -> Some("pass")
      [] pattern = "fail" -> Some("fail")
      [] pattern = "none" -> None
      [] pattern = "mixed" ->
            CASE id \in {"largest-contentful-paint", "total-blocking-time"} -> Some("pass")
              [] id \in {"max-potential-fid", "speed-index"} -> Some("average")
              [] id = "cumulative-layout-shift" -> Some("fail")
              [] OTHER -> None

\* the keys of S in the order of VitalKeys, or in the reverse order
VitalOrder(S, reversed) ==
    LET In(k) == k.id \in S
        kept == SelectSeq(VitalKeys, In)
        n == Len(kept)
    IN  [i \in 1..n |-> IF reversed THEN kept[n + 1 - i].id ELSE kept[i].id]

\* reports for getCoreWebVitals: any of the six audits present, in display
\* order or reversed
VitalsReports ==
    {AReport(<<>>, EmptyMap, VitalOrder(present, reversed),
             [id \in present |->
                 AnalyzerAudit(id, Some(50), Some(1200), RatingOf(pattern, id), None)]) :
         present \in SUBSET VitalIds,
         reversed \in BOOLEAN,
         pattern \in {"pass", "fail", "none", "mixed"}}

----------------------------------------------------------------------------
(* The commands `gl fixes` and `gl analyze` (src/commands/fixes.js and     *)
(* the analyze command) on a file system.                                  *)

\* a path: its directory, the name and the extension of its last component
Path(dir, name, ext) == [dir |-> dir, name |-> name, ext |-> ext]

\* the empty string given as a path
EmptyPath == Path("", "", "")

\* path.join(process.cwd(), '.lighthouse', 'reports')
ReportsDir == ".lighthouse/reports"
\* path.join(process.cwd(), '.lighthouse', 'reports', 'latest.json')
DefaultPath == Path(ReportsDir, "latest", "json")

\* a file: what reading it gives ("report": JSON text of a report,
\* "invalid": not JSON, "unreadable": the read fails) and its mtime
File(kind, report, mtime) == [kind |-> kind, report |-> report, mtime |-> mtime]

\* the path of a directory
DirPath(dir) == Path(dir, "", "")

\* the path names a directory of the file system
IsDirectory(fs, path) == path.name = "" /\ path.ext = "" /\ path.dir \in fs.dirs

\* fs.existsSync(path): true of a file and of a directory
existsSync(fs, path) == path \in DOMAIN fs.files \/ IsDirectory(fs, path)

\* f.endsWith('.json')
EndsWithJson(path) == path.ext = "json"

\* the candidates sorted oldest first: a.time - b.time
LatestFiles_OldestFirst(fs) ==
    LET json == SelectSeq(fs.listing, EndsWithJson)
    IN  SortStable(json, [i \in 1..Len(json) |-> fs.files[json[i]].mtime])

\* the candidates of the reports directory, newest first:
\* readdirSync().filter().map().sort((a, b) => b.time - a.time)
LatestFiles(fs) ==
    LET json == SelectSeq(fs.listing, EndsWithJson)
    IN  SortStable(json, [i \in 1..Len(json) |-> 0 - fs.files[json[i]].mtime])

\* `!report`: no argument, or the empty string
NoReportArg(report) == Nullish(report) \/ report = {EmptyPath}

\* the reportPath the commands settle on: {} when none
resolveReportPath(fs, report) ==
    IF NoReportArg(report) THEN
        IF existsSync(fs, DefaultPath) THEN Some(DefaultPath)
        ELSE IF existsSync(fs, DirPath(ReportsDir)) /\ Len(LatestFiles(fs)) > 0
             THEN Some(LatestFiles(fs)[1])
             ELSE None
    ELSE report

\* `!reportPath || !fs.existsSync(reportPath)`
ReportNotFound(fs, path) == Nullish(path) \/ ~existsSync(fs, Get(path))

\* the message of the error readFileSync or JSON.parse throws, {} when
\* the file loads
ReadError(fs, path) ==
    IF IsDirectory(fs, path)
    THEN Some("EISDIR: illegal operation on a directory, read")
    ELSE IF ~existsSync(fs, path) THEN Some("ENOENT: no such file or directory")
    ELSE IF fs.files[path].kind = "unreadable" THEN Some("EACCES: permission denied")
    ELSE IF fs.files[path].kind = "invalid" THEN Some("Unexpected token in JSON")
    ELSE None

\* loadReport() throwing an error that drops the underlying message
loadReport_NoCause(fs, path) ==
    IF ReadError(fs, path) # None
    THEN [threw |-> TRUE, message |-> Lit("Failed to load report"),
          value |-> AReport(<<>>, EmptyMap, <<>>, EmptyMap)]
    ELSE [threw |-> FALSE, message |-> Lit(""), value |-> fs.files[path].report]

\* loadReport(): [threw, message, value]
loadReport(fs, path) ==
    IF ReadError(fs, path) # None
    THEN [threw |-> TRUE,
          message |-> Txt("Failed to load report: {s}", <<>>, <<Get(ReadError(fs, path))>>),
          value |-> AReport(<<>>, EmptyMap, <<>>, EmptyMap)]
    ELSE [threw |-> FALSE, message |-> Lit(""), value |-> fs.files[path].report]

\* a report as the commands load it: the analyzer's view and fetchTime
CommandReport(fetchTime, categoryOrder, categories, auditOrder, audits) ==
    [fetchTime |-> fetchTime, categoryOrder |-> categoryOrder,
     categories |-> categories, auditOrder |-> auditOrder, audits |-> audits]

\* getCategoryScores(): `category.score !== null ? Math.round(
\* category.score * 100) : null`; a category without a score gets NaN
getCategoryScores(report) ==
    [i \in 1..Len(report.categoryOrder) |->
        LET category == report.categories[report.categoryOrder[i]]
        IN  [id |-> report.categoryOrder[i], title |-> category.title,
             score |-> IF category.score = None THEN None
                       ELSE IF category.score = Undefined THEN NaN
                       ELSE Some(MathRound(Get(category.score) * 100, 100))]]

\* getSummary(): the timestamp and the scores (url and version are copied
\* through and left out)
getSummary(report) ==
    [timestamp |-> report.fetchTime, scores |-> getCategoryScores(report)]

\* getScoreEmoji(score), called with a score of 0..100 and comparing it
\* with 0.9 and 0.5
getScoreEmoji(score) ==
    IF score = None THEN "white"
    ELSE IF score = NaN THEN "red"
    ELSE IF Get(score) * 100 >= 90 THEN "green"
    ELSE IF Get(score) * 100 >= 50 THEN "yellow"
    ELSE "red"

\* the emoji the analyze command puts before a score of 0..100 (the chalk
\* colour of the figure follows the same tests, gray for null); NaN fails
\* both comparisons
ConsoleEmoji(score) ==
    IF score = None THEN "white"
    ELSE IF score = NaN THEN "red"
    ELSE IF Get(score) >= 90 THEN "green"
    ELSE IF Get(score) >= 50 THEN "yellow"
    ELSE "red"

\* `${displayScore}/100` behind a label
ScoreText(label, score) ==
    IF score = None THEN Txt("{s}: N/A/100", <<>>, <<label>>)
    ELSE IF score = NaN THEN Txt("{s}: NaN/100", <<>>, <<label>>)
    ELSE Txt("{s}: {n}/100", <<Get(score)>>, <<label>>)

\* the heading with the seconds cut off instead of rounded
SavedText_Truncated(opp) ==
    IF opp.wastedMs > 0
    THEN Txt("{s} - {n}s saved", <<opp.wastedMs \div 1000>>, <<opp.title>>)
    ELSE Txt("{s}", <<>>, <<opp.title>>)

\* ` - **${Math.round(opp.wastedMs / 1000)}s saved**` when wastedMs > 0
SavedText(opp) ==
    IF opp.wastedMs > 0
    THEN Txt("{s} - {n}s saved", <<MathRound(opp.wastedMs, 1000)>>, <<opp.title>>)
    ELSE Txt("{s}", <<>>, <<opp.title>>)

\* new Date(timestamp).toISOString(): {} when it throws RangeError, which
\* it does for a report without fetchTime and for a fetchTime that is no
\* date; new Date(null) is the epoch
toISOString(timestamp) ==
    IF timestamp = Undefined \/ timestamp = {"not a date"} THEN None
    ELSE IF timestamp = None THEN Some("1970-01-01T00:00:00.000Z")
    ELSE timestamp

\* new Date(timestamp).toLocaleString(): never throws
toLocaleString(timestamp) ==
    IF toISOString(timestamp) = None THEN Lit("Invalid Date")
    ELSE Txt("{s} in local time", <<>>, <<Get(toISOString(timestamp))>>)

\* formatMarkdown(): [threw, value, heap]; the RangeError of toISOString
\* on a report without fetchTime leaves the method before
\* getFailedAudits() is called
formatMarkdown(report, options) ==
    LET summary == getSummary(report)
        vitals == getCoreWebVitals(report)
        opportunities == getOpportunities(report)
        failed == getFailedAudits(report, options, options.category)
        scoreLines == [i \in 1..Len(summary.scores) |->
            Line("score", getScoreEmoji(summary.scores[i].score),
                 ScoreText(summary.scores[i].title, summary.scores[i].score))]
        vitalLines == [i \in 1..Len(vitals) |->
            Line("vital", IF vitals[i].passed THEN "pass" ELSE "fail",
                 Txt("| {s} | {s} |", <<>>, <<vitals[i].name, Str(vitals[i].displayValue)>>))]
        oppLines == Concat([i \in 1..Len(opportunities) |->
            <<Line("h3", "", SavedText(opportunities[i])),
              Line("text", "", Lit(opportunities[i].description))>>])
        failedLines == Concat([i \in 1..Len(failed.value) |->
            <<Line("h3", "", Txt("{s}", <<>>, <<failed.value[i].title>>)),
              Line("text", "", Txt("- Score: {n}", <<MathRound(Get(failed.value[i].score) * 100, 100)>>, <<>>)),
              Line("text", "", Lit(failed.value[i].description))>>])
    IN  IF toISOString(summary.timestamp) = None
        THEN [threw |-> TRUE, value |-> <<>>, heap |-> AuditRefsHeap(report)]
        ELSE IF failed.threw
        THEN [threw |-> TRUE, value |-> <<>>, heap |-> failed.heap]
        ELSE [threw |-> FALSE, heap |-> failed.heap,
              value |->
                <<Line("h1", "", Lit("# Lighthouse Report Analysis")),
                  Line("h2", "", Lit("## Summary")),
                  Line("text", "", Txt("- Timestamp: {s}", <<>>, <<Get(toISOString(summary.timestamp))>>)),
                  Line("h2", "", Lit("## Category Scores"))>>
                \o scoreLines
                \o <<Line("h2", "", Lit("## Core Web Vitals"))>>
                \o vitalLines
                \o (IF Len(opportunities) > 0
                    THEN <<Line("h2", "", Lit("## Opportunities (Sorted by Impact)"))>> \o oppLines
                    ELSE <<>>)
                \o (IF Len(failed.value) > 0
                    THEN <<Line("h2", "", Lit("## Failed Audits"))>> \o failedLines
                    ELSE <<>>)]

\* `summary.scores[id]?.score < limit`: false when the category is
\* absent or its score NaN, a null score compares as 0
SummaryScoreBelow(summary, id, limit) ==
    \E i \in 1..Len(summary.scores) :
        /\ summary.scores[i].id = id
        /\ ScoreLT(summary.scores[i].score, limit)

\* the characters of a description the verbose display shows
DescriptionShown == 100

\* what the analyze command prints for a successful analysis, line by line
AnalyzeDisplay(summary, vitals, opportunities, failedAudits, verbose) ==
    LET scoreLines == [i \in 1..Len(summary.scores) |->
            Line("score", ConsoleEmoji(summary.scores[i].score),
                 ScoreText(summary.scores[i].id, summary.scores[i].score))]
        vitalLines == [i \in 1..Len(vitals) |->
            Line("vital", IF vitals[i].passed THEN "pass" ELSE "fail",
                 IF ~Nullish(vitals[i].displayValue) /\ vitals[i].displayValue # {""}
                 THEN Txt("{two words of s} {s}", <<>>,
                          <<vitals[i].name, Get(vitals[i].displayValue)>>)
                 ELSE IF vitals[i].value = Undefined
                 THEN Txt("{two words of s} NaN{s}", <<>>,
                          <<vitals[i].name, Str(vitals[i].unit)>>)
                 ELSE IF vitals[i].value = None
                 THEN Txt("{two words of s} {n}{s}", <<0>>,
                          <<vitals[i].name, Str(vitals[i].unit)>>)
                 ELSE Txt("{two words of s} {n}{s}", <<MathRound(Get(vitals[i].value), 1)>>,
                          <<vitals[i].name, Str(vitals[i].unit)>>))]
        topOpps == Slice(opportunities, 5)
        oppLines == Concat([i \in 1..Len(topOpps) |->
            <<Line("item", "", SavedText(topOpps[i]))>>
            \o (IF verbose
                THEN <<Line("text", "", Txt("{s}...", <<>>,
                        <<Substring(topOpps[i].description, DescriptionShown)>>))>>
                ELSE <<>>)])
        topFailed == Slice(failedAudits, 5)
        failedLines == Concat([i \in 1..Len(topFailed) |->
            <<Line("item", "", Txt("{s} Score: {n}",
                                   <<MathRound(Get(topFailed[i].score) * 100, 100)>>,
                                   <<topFailed[i].title>>))>>
            \o (IF verbose
                THEN <<Line("text", "", Txt("{s}...", <<>>,
                        <<Substring(topFailed[i].description, DescriptionShown)>>))>>
                ELSE <<>>)])
    IN  <<Line("h1", "", Lit("Lighthouse Analysis")),
          Line("h2", "", Lit("Summary")),
          Line("text", "", toLocaleString(summary.timestamp)),
          Line("h2", "", Lit("Category Scores"))>>
        \o scoreLines
        \o <<Line("h2", "", Lit("Core Web Vitals"))>>
        \o vitalLines
        \o (IF Len(opportunities) > 0
            THEN <<Line("h2", "", Lit("Opportunities (Sorted by Impact)"))>> \o oppLines
                 \o (IF Len(opportunities) > 5
                     THEN <<Line("text", "", Txt("... and {n} more opportunities",
                                                  <<Len(opportunities) - 5>>, <<>>))>>
                     ELSE <<>>)
            ELSE <<>>)
        \o (IF Len(failedAudits) > 0
            THEN <<Line("h2", "", Lit("Failed Audits"))>> \o failedLines
                 \o (IF Len(failedAudits) > 5
                     THEN <<Line("text", "", Txt("... and {n} more failed audits",
                                                  <<Len(failedAudits) - 5>>, <<>>))>>
                     ELSE <<>>)
            ELSE <<>>)
        \o <<Line("h2", "", Lit("Quick Actions"))>>
        \o (IF Len(opportunities) > 0
            THEN <<Line("text", "", Lit("Run: gl fixes .lighthouse/reports/latest.json"))>>
            ELSE <<>>)
        \o (IF SummaryScoreBelow(summary, "performance", 90)
            THEN <<Line("text", "", Lit("Focus on: Core Web Vitals (LCP, FID, CLS)"))>>
            ELSE <<>>)
        \o (IF SummaryScoreBelow(summary, "accessibility", 90)
            THEN <<Line("text", "", Lit("Fix: Alt text, color contrast, form labels"))>>
            ELSE <<>>)
        \o (IF SummaryScoreBelow(summary, "seo", 90)
            THEN <<Line("text", "", Lit("Add: Meta descriptions, structured data, canonical URLs"))>>
            ELSE <<>>)

\* JSON.stringify({summary, coreWebVitals, opportunities, failedAudits}):
\* one line per member; NaN is written as null
AnalysisJson(summary, vitals, opportunities, failedAudits) ==
    [i \in 1..Len(summary.scores) |->
        Line("json", "scores",
             ScoreText(summary.scores[i].id,
                       IF summary.scores[i].score = NaN THEN None
                       ELSE summary.scores[i].score))]
    \o [i \in 1..Len(vitals) |->
        Line("json", "coreWebVitals", Txt("{s}: {s}", <<>>, <<vitals[i].key, vitals[i].name>>))]
    \o [i \in 1..Len(opportunities) |->
        Line("json", "opportunities",
             Txt("{s}: {n} ms, {s}", <<opportunities[i].wastedMs>>,
                 <<opportunities[i].title, opportunities[i].description>>))]
    \o [i \in 1..Len(failedAudits) |->
        Line("json", "failedAudits",
             Txt("{s}: {n}, {s}", <<Get(failedAudits[i].score)>>,
                 <<failedAudits[i].title, failedAudits[i].description>>))]

\* generate(): the fix list a call leaves in this.fixes before formatOutput
generateFixes(im, report, before) ==
    before
    \o analyzePerformanceIssues(im, report)
    \o CategoryFixes(im, report, "accessibility")
    \o CategoryFixes(im, report, "seo")
    \o CategoryFixes(im, report, "best-practices")

\* parseFloat(str): the Dec that the longest prefix of the string, its
\* leading white space skipped, forming a decimal literal (sign, digits,
\* '.', digits, exponent, or Infinity) stands for, in hundredths; NaN
\* when there is no such prefix.  What follows the literal is ignored.
parseFloat(str) ==
    LET DigitSet == Digits
        signAt == RunEnd(str, 1, WhiteSpace)
        negative == CodeAt(str, signAt) = CodeOf("-")
        start == IF CodeAt(str, signAt) \in {CodeOf("+"), CodeOf("-")}
                 THEN signAt + 1 ELSE signAt
        sign == IF negative THEN 0 - 1 ELSE 1
        isInfinity == Len(str) >= start + 7
                      /\ SubSeq(str, start, start + 7) = Codes("Infinity")
        intEnd == RunEnd(str, start, DigitSet)
        hasDot == CodeAt(str, intEnd) = CodeOf(".")
        fracEnd == IF hasDot THEN RunEnd(str, intEnd + 1, DigitSet) ELSE intEnd
        intDigits == intEnd - start
        fracDigits == IF hasDot THEN fracEnd - (intEnd + 1) ELSE 0
        mantissa == DigitsValue(str, start, intEnd - 1) * Pow10(fracDigits)
                    + DigitsValue(str, intEnd + 1, fracEnd - 1)
        expNegative == CodeAt(str, fracEnd + 1) = CodeOf("-")
        expStart == IF CodeAt(str, fracEnd + 1) \in {CodeOf("+"), CodeOf("-")}
                    THEN fracEnd + 2 ELSE fracEnd + 1
        expEnd == RunEnd(str, expStart, DigitSet)
        hasExponent == CodeAt(str, fracEnd) \in {CodeOf("e"), CodeOf("E")}
                       /\ expEnd > expStart
        exponent == IF ~hasExponent THEN 0
                    ELSE IF expNegative THEN 0 - DigitsValue(str, expStart, expEnd - 1)
                    ELSE DigitsValue(str, expStart, expEnd - 1)
        \* the power of ten that turns the mantissa into hundredths
        shift == exponent - fracDigits + 2
    IN  IF isInfinity THEN Some(Dec(sign, 0))
        ELSE IF intDigits + fracDigits = 0 THEN NaN
        ELSE IF mantissa = 0 THEN Some(Hundredths(0))
        ELSE IF shift >= 0 THEN Some(Hundredths(sign * mantissa * Pow10(shift)))
        ELSE Some(Reduce(sign * mantissa, Pow10(0 - shift)))

\* one console.log or console.error call
Out(kind, lines) == [stream |-> "out", kind |-> kind, lines |-> lines]
Err(kind, lines) == [stream |-> "err", kind |-> kind, lines |-> lines]

\* the two console.error calls for a report that is not found
NotFoundMessages ==
    <<Err("error", <<Line("text", "", Lit("Error: Lighthouse report not found"))>>),
      Err("hint", <<Line("text", "",
          Lit("Run: lighthouse <url> --output json --output-path .lighthouse/reports/latest.json"))>>)>>

\* a catch block that swallows the error
CatchMessages_Silent(command, args, message) == <<>>

\* the catch block: spinner.fail(...), console.error(error.message) and,
\* in a verbose analyze, console.error(error.stack)
CatchMessages(command, args, message) ==
    <<Err("spinner", <<Line("text", "",
          IF command = "fixes" THEN Lit("Failed to generate fixes")
          ELSE Lit("Failed to analyze report"))>>),
      Err("message", <<Line("text", "", message)>>)>>
    \o (IF command = "analyze" /\ args.verbose
        THEN <<Err("stack", <<Line("text", "", message)>>)>> ELSE <<>>)

\* the file the command saves to
OutputPath(command, args) ==
    IF command = "fixes"
    THEN IF Nullish(args.output) \/ args.output = {EmptyPath}
         THEN Path(".lighthouse/fixes", "fixes-<date>", "md")
         ELSE Get(args.output)
    ELSE Path(".lighthouse/analysis", "analysis-<date>",
              IF args.format = "json" THEN "json" ELSE "md")

\* `options.format === 'json' || options.format === 'markdown'`; the fixes
\* command always saves
SavesFile(command, args) ==
    command = "fixes" \/ args.format = "json" \/ args.format = "markdown"

\* the directories that exist once the command's own have been made
DirsNow(fs, done) == fs.dirs \cup {done[i].dir : i \in 1..Len(done)}

\* one mkdirSync or writeFileSync that succeeded
Effect(op, path, lines) == [op |-> op, dir |-> path.dir, path |-> path, lines |-> lines]

\* the reports the files of the model hold
SpeedIndexAudit(score) ==
    AnalyzerAudit("speed-index", score, Some(5000), Some("fail"), None)
MetaDescriptionAudit(score) ==
    AnalyzerAudit("meta-description", score, None, None, None)
RenderBlockingAudit(score) ==
    AnalyzerAudit("render-blocking-resources", score, None, None,
                  Some(OpportunityDetails("opportunity", Some(1500))))

\* performance references speed-index and render-blocking-resources, seo
\* references meta-description
TwoCategoryReport(fetchTime, perfScore, seoScore, auditScore, perfRefs) ==
    CommandReport(fetchTime, <<"performance", "seo">>,
        ("performance" :> Category("Performance", perfScore, perfRefs))
        @@ ("seo" :> Category("SEO", seoScore, <<Ref("meta-description")>>)),
        <<"speed-index", "meta-description", "render-blocking-resources">>,
        ("speed-index" :> SpeedIndexAudit(auditScore))
        @@ ("meta-description" :> MetaDescriptionAudit(auditScore))
        @@ ("render-blocking-resources" :> RenderBlockingAudit(auditScore)))

PerformanceRefs == <<Ref("speed-index"), Ref("render-blocking-resources")>>

\* every audit passes
CleanReport == TwoCategoryReport(FetchTime, Some(95), Some(100), Some(100), PerformanceRefs)
\* every audit fails, performance scores 0.3
FailingReport == TwoCategoryReport(FetchTime, Some(30), Some(80), Some(40), PerformanceRefs)
\* the same without fetchTime
UndatedReport ==
    TwoCategoryReport(Undefined, Some(30), Some(80), Some(40), PerformanceRefs)
\* the failing report with a fetchTime of null, a performance category
\* without a score, an seo category of a null score and a speed-index of
\* a null numericValue and no displayValue
SparseReport ==
    [FailingReport EXCEPT
        !.fetchTime = None,
        !.categories["performance"].score = Undefined,
        !.categories["seo"].score = None,
        !.audits["speed-index"].numericValue = None,
        !.audits["speed-index"].displayValue = Undefined]
\* the failing report whose speed-index has neither numericValue nor
\* displayValue
UnmeasuredReport ==
    [FailingReport EXCEPT
        !.audits["speed-index"].numericValue = Undefined,
        !.audits["speed-index"].displayValue = Undefined]
\* performance references an audit the report does not hold
DanglingReport ==
    TwoCategoryReport(FetchTime, Some(30), Some(80), Some(40),
                      <<Ref("speed-index"), Ref("removed-audit")>>)

\* descriptions of 121 and of 100 characters
LongDescription ==
    "A description that is longer than one hundred characters, so that the verbose display has to cut it short at the limit..."
RoundDescription ==
    "A description of exactly one hundred characters, which the verbose display shows whole, all of it!!!"

\* the failing report with a speed-index of an empty displayValue and of a
\* description longer than the verbose display shows, and an opportunity
\* with a description of just that length
VerboseReport ==
    [FailingReport EXCEPT
        !.audits["speed-index"].description = LongDescription,
        !.audits["speed-index"].displayValue = Some(""),
        !.audits["render-blocking-resources"].description = RoundDescription]

CommandReports ==
    {CleanReport, FailingReport, UndatedReport, SparseReport, UnmeasuredReport,
     DanglingReport, VerboseReport}

FileKinds == {"report", "invalid", "unreadable"}

GivenPath == Path("downloads", "given", "json")
MissingPath == Path("downloads", "missing", "json")
DownloadsDir == DirPath("downloads")
OlderJson == Path(ReportsDir, "older", "json")
NewerJson == Path(ReportsDir, "newer", "json")
NotesTxt == Path(ReportsDir, "notes", "txt")
CustomOutput == Path("docs", "fixes", "md")

\* the directories a command may save into
OutputDirs == {".lighthouse/fixes", ".lighthouse/analysis", "docs"}

\* file systems for a run without a path argument: latest.json present in
\* any kind or absent, any of three other files in the reports directory,
\* listed in either order, the two JSON files of different or equal mtime
ImplicitFileSystems ==
    {FileSystem(
        (IF latest = "absent" THEN EmptyMap
         ELSE DefaultPath :> File(latest, FailingReport, 5))
        @@ [f \in others |->
               IF f = OlderJson THEN File("report", CleanReport, IF tie THEN 2 ELSE 1)
               ELSE IF f = NewerJson THEN File(newer, UndatedReport, 2)
               ELSE File("invalid", CleanReport, 3)],
        (IF latest # "absent" \/ others # {} \/ emptyDir THEN {ReportsDir} ELSE {})
        \cup (IF outDirs THEN OutputDirs ELSE {}),
        LET Listed(f) == f \in others
        IN  SelectSeq(IF reversed THEN <<NotesTxt, NewerJson, OlderJson>>
                      ELSE <<OlderJson, NewerJson, NotesTxt>>, Listed),
        fault) :
        latest \in FileKinds \cup {"absent"},
        others \in SUBSET {OlderJson, NewerJson, NotesTxt},
        newer \in {"report", "invalid"},
        tie \in BOOLEAN, reversed \in BOOLEAN, emptyDir \in BOOLEAN,
        outDirs \in BOOLEAN,
        fault \in {"none", "mkdir", "write"}}

\* file systems for a run with a path argument: the file named holds any
\* report, is invalid or unreadable; latest.json is there and loads
ExplicitFileSystems ==
    {FileSystem((DefaultPath :> File("report", CleanReport, 5))
                @@ (GivenPath :> File(kind, report, 4)),
                {ReportsDir, "downloads"} \cup (IF outDirs THEN OutputDirs ELSE {}),
                <<DefaultPath>>, fault) :
        kind \in FileKinds, report \in CommandReports,
        outDirs \in BOOLEAN, fault \in {"none", "mkdir", "write"}}

\* the report argument: none, the empty string, a file, a path where no
\* file is, a directory
ReportArgs ==
    {None, Some(EmptyPath), Some(GivenPath), Some(MissingPath), Some(DownloadsDir)}

\* gl fixes [report] [--category seo] [--output docs/fixes.md]
FixesArgs ==
    {Args(report, category, outputOption, Codes("0.5"), "markdown", FALSE) :
        report \in ReportArgs,
        category \in {None, Some("seo")}, outputOption \in {None, Some(CustomOutput)}}

\* the values of --min-score: 0.5, 0.9 behind a no-break space, 0.8
\* behind an ideographic space, a byte order mark and a line separator
MinScoreOptions ==
    {Codes("0.5"), <<160>> \o Codes("0.9"), <<12288, 65279, 8232>> \o Codes("0.8")}

\* gl analyze [report] [--category seo] [--min-score 0.9] [--format f] [-v]
AnalyzeArgs ==
    {Args(report, category, None, minScore, format, verbose) :
        report \in ReportArgs,
        category \in {None, Some("seo")},
        minScore \in MinScoreOptions,
        format \in {"markdown", "json", "text"}, verbose \in BOOLEAN}
    \cup {Args(report, Some("constructor"), None, Codes("0.5"), format, FALSE) :
             report \in ReportArgs, format \in {"markdown", "json"}}

\* the savings an opportunity of a rendered report may hold: absent, 0,
\* under half a second, exactly half a second, one and a half, 2.6 s
SavingsValues == {None, Some(0), Some(400), Some(500), Some(1500), Some(2600)}

\* an audit of a rendered report: no opportunity, or a failing one with
\* the savings given
RenderedAudit(id, kind, overallSavingsMs) ==
    AnalyzerAudit(id, Some(50), None, None,
                  IF kind = "table"
                  THEN Some(OpportunityDetails("table", overallSavingsMs))
                  ELSE Some(OpportunityDetails("opportunity", overallSavingsMs)))

\* a report of one category and the three audits given
RenderedReport(score, a, b, c) ==
    CommandReport(FetchTime, <<"performance">>,
        "performance" :> Category("Performance", score, <<>>),
        <<"render-blocking-resources", "unused-css-rules", "uses-text-compression">>,
        ("render-blocking-resources" :> a) @@ ("unused-css-rules" :> b)
        @@ ("uses-text-compression" :> c))

\* reports to render: the category score anything from 0 to 1 in
\* hundredths, or null, over fixed audits; and three opportunities of any
\* savings, the second possibly a table, under a fixed score
RenderedReports ==
    {RenderedReport(score,
         RenderedAudit("render-blocking-resources", "opportunity", Some(400)),
         RenderedAudit("unused-css-rules", "opportunity", Some(1500)),
         RenderedAudit("uses-text-compression", "table", Some(2600))) :
        score \in {None} \cup {Some(s) : s \in 0..100}}
    \cup
    {RenderedReport(Some(70),
         RenderedAudit("render-blocking-resources", "opportunity", x),
         RenderedAudit("unused-css-rules", kind, y),
         RenderedAudit("uses-text-compression", "opportunity", z)) :
        x \in SavingsValues, y \in SavingsValues, z \in SavingsValues,
        kind \in {"opportunity", "table"}}

\* the file named on the command line holds a report to render
RenderedFileSystems ==
    {FileSystem(GivenPath :> File("report", report, 4),
                {"downloads"}, <<>>, "none") :
        report \in RenderedReports}

\* gl analyze downloads/given.json [--format f] [-v]
RenderArgs ==
    {Args(Some(GivenPath), None, None, Codes("0.5"), format, verbose) :
        format \in {"markdown", "json"}, verbose \in BOOLEAN}

\* reports for getDiagnostics: two of the audits it looks up, either one
\* possibly absent, of any score or none
DiagnosticsReports ==
    {AReport(<<>>, EmptyMap,
             LET Held(id) == id \in present IN SelectSeq(order, Held),
             [id \in present |-> AnalyzerAudit(id, score, Some(900), None, None)]) :
         present \in SUBSET {"bootup-time", "dom-size"},
         order \in {<<"dom-size", "bootup-time">>, <<"bootup-time", "dom-size">>},
         score \in {Undefined, None, Some(50), Some(100)}}

InitAnalyzer ==
    /\ \/ /\ alhr \in AnalyzerReports \cup InheritedKeyAnalyzerReports
          /\ aargs \in AnalyzerArgs
       \/ /\ alhr = FailingReport
          /\ aargs = [category |-> Some("constructor"), minScore |-> None]
       \/ /\ alhr \in OpportunityReports \cup VitalsReports
          /\ aargs = [category |-> None, minScore |-> None]
       \/ /\ alhr \in CommandReports \cup DiagnosticsReports
          /\ aargs \in AnalyzerArgs
    /\ aoptions = AnalyzerOptions(aargs)
    /\ afailed = NoCall
    /\ aopps = NoQuery
    /\ avitals = NoQuery
    /\ aresult = NoResult
    /\ NoGenerator
    /\ NoCommand

\* the category ids a caller may pass: none, '', a category of the report,
\* one the report does not have, the name of a property every object
\* inherits
CategoryIds ==
    {None, Some(""), Some("performance"), Some("seo"), Some("pwa"), Some("constructor")}

GetFailedAudits ==
    /\ \E categoryId \in CategoryIds :
          LET r == getFailedAudits(alhr, aoptions, categoryId)
          IN  /\ afailed' = [called |-> TRUE, categoryId |-> categoryId,
                              threw |-> r.threw, value |-> r.value]
              /\ alhr' = WithAuditRefs(alhr, r.heap)
    /\ aopps' = NoQuery
    /\ avitals' = NoQuery
    /\ aresult' = NoResult
    /\ UNCHANGED <<aargs, aoptions>>
    /\ UNCHANGED genVars
    /\ UNCHANGED cmdVars

GetOpportunities ==
    /\ aopps' = [called |-> TRUE, value |-> getOpportunities(alhr)]
    /\ afailed' = NoCall
    /\ avitals' = NoQuery
    /\ aresult' = NoResult
    /\ UNCHANGED <<alhr, aargs, aoptions>>
    /\ UNCHANGED genVars
    /\ UNCHANGED cmdVars

GetCoreWebVitals ==
    /\ avitals' = [called |-> TRUE, value |-> getCoreWebVitals(alhr)]
    /\ afailed' = NoCall
    /\ aopps' = NoQuery
    /\ aresult' = NoResult
    /\ UNCHANGED <<alhr, aargs, aoptions>>
    /\ UNCHANGED genVars
    /\ UNCHANGED cmdVars

GetSummary ==
    /\ aresult' = Result("getSummary", FALSE, getSummary(alhr))
    /\ afailed' = NoCall
    /\ aopps' = NoQuery
    /\ avitals' = NoQuery
    /\ UNCHANGED <<alhr, aargs, aoptions>>
    /\ UNCHANGED genVars
    /\ UNCHANGED cmdVars

GetDiagnostics ==
    /\ aresult' = Result("getDiagnostics", FALSE, getDiagnostics(alhr))
    /\ afailed' = NoCall
    /\ aopps' = NoQuery
    /\ avitals' = NoQuery
    /\ UNCHANGED <<alhr, aargs, aoptions>>
    /\ UNCHANGED genVars
    /\ UNCHANGED cmdVars

\* formatMarkdown(), which runs getFailedAudits(this.options.category)
FormatMarkdown ==
    /\ LET r == formatMarkdown(alhr, aoptions)
       IN  /\ aresult' = Result("formatMarkdown", r.threw, r.value)
           /\ alhr' = WithAuditRefs(alhr, r.heap)
    /\ afailed' = NoCall
    /\ aopps' = NoQuery
    /\ avitals' = NoQuery
    /\ UNCHANGED <<aargs, aoptions>>
    /\ UNCHANGED genVars
    /\ UNCHANGED cmdVars

NextAnalyzer ==
    \/ GetFailedAudits
    \/ GetOpportunities
    \/ GetCoreWebVitals
    \/ GetSummary
    \/ GetDiagnostics
    \/ FormatMarkdown

SpecAnalyzer == InitAnalyzer /\ [][NextAnalyzer]_vars

InitCommand ==
    /\ \/ /\ cmd \in {"fixes", "analyze"}
          /\ cargs \in IF cmd = "fixes" THEN FixesArgs ELSE AnalyzeArgs
          /\ fsys \in IF NoReportArg(cargs.report) THEN ImplicitFileSystems
                      ELSE ExplicitFileSystems
       \/ /\ cmd = "analyze"
          /\ cargs \in RenderArgs
          /\ fsys \in RenderedFileSystems
    /\ cpc = "start"
    /\ reportPath = None
    /\ content = <<>>
    /\ console = <<>>
    /\ effects = <<>>
    /\ exitCode = None
    /\ NoGenerator
    /\ NoAnalyzer

\* process.exit(1) after the messages
ExitWith(messages) ==
    /\ console' = console \o messages
    /\ exitCode' = Some(1)
    /\ cpc' = "exited"

\* the report path is settled; a report not found ends the run
Resolve ==
    /\ cpc = "start"
    /\ reportPath' = resolveReportPath(fsys, cargs.report)
    /\ IF ReportNotFound(fsys, reportPath')
       THEN ExitWith(NotFoundMessages)
       ELSE /\ console' = console \o
                  (IF cmd = "analyze" /\ NoReportArg(cargs.report)
                      /\ Get(reportPath') # DefaultPath
                   THEN <<Out("notice", <<Line("text", "",
                            Txt("Using latest report: {s}.{s}", <<>>,
                                <<Get(reportPath').name, Get(reportPath').ext>>))>>)>>
                   ELSE <<>>)
            /\ cpc' = "resolved"
            /\ UNCHANGED exitCode
    /\ UNCHANGED <<cmd, cargs, fsys, content, effects>>
    /\ UNCHANGED <<genVars, anVars>>

\* new FixGenerator(reportPath, {category}) or new LighthouseAnalyzer(
\* reportPath, {category, minScore, verbose}); a load error ends the run
Construct ==
    /\ cpc = "resolved"
    /\ LET loaded == loadReport(fsys, Get(reportPath))
       IN  IF loaded.threw
           THEN /\ ExitWith(CatchMessages(cmd, cargs, loaded.message))
                /\ UNCHANGED <<genVars, anVars>>
           ELSE /\ cpc' = "constructed"
                /\ UNCHANGED <<console, exitCode>>
                /\ IF cmd = "fixes"
                   THEN /\ lhr' = loaded.value
                        /\ fixes' = <<>>
                        /\ UNCHANGED <<impl, pc, output, calls, anVars>>
                   ELSE /\ alhr' = loaded.value
                        /\ aargs' = [category |-> cargs.category,
                                     minScore |-> parseFloat(cargs.minScore)]
                        /\ aoptions' = AnalyzerOptions(aargs')
                        /\ UNCHANGED <<afailed, aopps, avitals, aresult, genVars>>
    /\ UNCHANGED <<cmd, cargs, fsys, reportPath, content, effects>>

\* generator.generate(), or the four queries of analyze; a query that
\* throws ends the run
Run ==
    /\ cpc = "constructed"
    /\ IF cmd = "fixes"
       THEN LET Generated(all) ==
                    /\ fixes' = formatOutputFixes(all)
                    /\ output' = formatOutput(impl, all)
                    /\ content' = output'
                    /\ calls' = calls + 1
                    /\ lhr' = lhrAfterPerformance(impl, lhr)
                    /\ cpc' = "computed"
                    /\ UNCHANGED <<impl, pc, anVars, console, exitCode>>
            IN  Generated(generateFixes(impl, lhr, fixes))
       ELSE LET Analyzed(failed) ==
                    /\ aresult' = Result("getSummary", FALSE, getSummary(alhr))
                    /\ avitals' = [called |-> TRUE, value |-> getCoreWebVitals(alhr)]
                    /\ aopps' = [called |-> TRUE, value |-> getOpportunities(alhr)]
                    /\ afailed' = [called |-> TRUE, categoryId |-> cargs.category,
                                   threw |-> failed.threw, value |-> failed.value]
                    /\ alhr' = WithAuditRefs(alhr, failed.heap)
                    /\ IF failed.threw
                       THEN ExitWith(CatchMessages(cmd, cargs, Lit(failed.message)))
                       ELSE /\ cpc' = "computed"
                            /\ UNCHANGED <<console, exitCode>>
                    /\ UNCHANGED <<aargs, aoptions, genVars, content>>
            IN  Analyzed(getFailedAudits(alhr, aoptions, cargs.category))
    /\ UNCHANGED <<cmd, cargs, fsys, reportPath, effects>>

\* the console.log calls that show the result; analyze returns here when
\* no file is asked for
Show ==
    /\ cpc = "computed"
    /\ console' = console \o
          (IF cmd = "fixes"
           THEN <<Out("heading", <<Line("h1", "", Lit("Fix Suggestions"))>>),
                  Out("content", content)>>
           ELSE <<Out("analysis",
                      AnalyzeDisplay(getSummary(alhr), avitals.value, aopps.value,
                                     afailed.value, cargs.verbose))>>)
    /\ IF SavesFile(cmd, cargs)
       THEN cpc' = "shown" /\ UNCHANGED exitCode
       ELSE cpc' = "exited" /\ exitCode' = Some(0)
    /\ UNCHANGED <<cmd, cargs, fsys, reportPath, content, effects>>
    /\ UNCHANGED <<genVars, anVars>>

\* `if (!fs.existsSync(outputDir)) fs.mkdirSync(outputDir, {recursive})`
MakeDir ==
    /\ cpc = "shown"
    /\ LET outputDir == OutputPath(cmd, cargs).dir
       IN  IF outputDir \in DirsNow(fsys, effects)
           THEN cpc' = "dir-ready" /\ UNCHANGED <<console, exitCode, effects>>
           ELSE IF fsys.fault = "mkdir"
           THEN /\ ExitWith(CatchMessages(cmd, cargs,
                        Lit("EACCES: permission denied, mkdir")))
                /\ UNCHANGED effects
           ELSE /\ effects' = Append(effects, Effect("mkdir", Path(outputDir, "", ""), <<>>))
                /\ cpc' = "dir-ready"
                /\ UNCHANGED <<console, exitCode>>
    /\ UNCHANGED <<cmd, cargs, fsys, reportPath, content>>
    /\ UNCHANGED <<genVars, anVars>>

\* analyze renders the content here; fs.writeFileSync(outputPath, content)
\* and the closing console.log; the command returns
Save ==
    /\ cpc = "dir-ready"
    /\ LET Write(rendered) ==
               IF rendered.threw
               THEN /\ ExitWith(CatchMessages(cmd, cargs, Lit("Invalid time value")))
                    /\ UNCHANGED <<content, effects>>
               ELSE /\ content' = rendered.value
                    /\ IF fsys.fault = "write"
                       THEN /\ ExitWith(CatchMessages(cmd, cargs,
                                    Lit("EACCES: permission denied, open")))
                            /\ UNCHANGED effects
                       ELSE /\ effects' = Append(effects,
                                    Effect("write", OutputPath(cmd, cargs), rendered.value))
                            /\ console' = Append(console,
                                    Out("saved", <<Line("text", "",
                                        Txt("saved to: {s}/{s}.{s}", <<>>,
                                            <<OutputPath(cmd, cargs).dir,
                                              OutputPath(cmd, cargs).name,
                                              OutputPath(cmd, cargs).ext>>))>>))
                            /\ exitCode' = Some(0)
                            /\ cpc' = "exited"
           Render(markdown) ==
               /\ Write(IF cmd = "fixes" THEN [threw |-> FALSE, value |-> content]
                        ELSE IF cargs.format = "json"
                        THEN [threw |-> FALSE,
                              value |-> AnalysisJson(getSummary(alhr), avitals.value,
                                                     aopps.value, afailed.value)]
                        ELSE markdown)
               /\ alhr' = IF cmd = "analyze" /\ cargs.format # "json"
                          THEN WithAuditRefs(alhr, markdown.heap)
                          ELSE alhr
       IN  Render(formatMarkdown(alhr, aoptions))
    /\ UNCHANGED <<cmd, cargs, fsys, reportPath>>
    /\ UNCHANGED <<genVars, aargs, aoptions, afailed, aopps, avitals, aresult>>

NextCommand ==
    \/ Resolve
    \/ Construct
    \/ Run
    \/ Show
    \/ MakeDir
    \/ Save

SpecCommand == InitCommand /\ [][NextCommand]_vars

----------------------------------------------------------------------------
(* The command `gl init` (src/commands/init.js).  Its options are          *)
(* cargs = [yes, ide], the project it runs in is fsys = [config, fault],   *)
(* content holds selectedIDEs, effects the config.json writes and the      *)
(* copyTemplates() calls in order.                                         *)

\* Object.keys(IDE_TEMPLATES)
validIDEs == <<"claude", "antigravity">>

\* str.split(sep) for a separator of one code unit
RECURSIVE Split(_, _)
Split(str, sep) ==
    LET IsSep(i) == CodeAt(str, i) = sep
    IN  IF \A i \in 1..Len(str) : ~IsSep(i) THEN <<str>>
        ELSE LET at == CHOOSE i \in 1..Len(str) :
                           IsSep(i) /\ \A j \in 1..(i - 1) : ~IsSep(j)
             IN  <<SubSeq(str, 1, at - 1)>>
                 \o Split(SubSeq(str, at + 1, Len(str)), sep)

\* str.trim(): the white space at both ends taken off
RECURSIVE Trim(_)
Trim(str) ==
    IF str = <<>> THEN str
    ELSE IF CodeAt(str, 1) \in WhiteSpace THEN Trim(SubSeq(str, 2, Len(str)))
    ELSE IF CodeAt(str, Len(str)) \in WhiteSpace
    THEN Trim(SubSeq(str, 1, Len(str) - 1))
    ELSE str

\* the code units toLowerCase() changes among U+0000 to U+00FF: A to Z
\* and the capital letters of Latin-1, U+00C0 to U+00DE without the
\* multiplication sign; the small letter is 32 further on
UpperCase == (CodeOf("A")..CodeOf("Z")) \cup ((192..222) \ {215})

\* str.toLowerCase() of a string whose letters are of U+0000 to U+00FF
ToLowerCase(str) ==
    [i \in 1..Len(str) |-> IF str[i] \in UpperCase THEN str[i] + 32 ELSE str[i]]

\* i.trim().toLowerCase() of a piece of the --ide option
TrimLowerCase(token) == ToLowerCase(Trim(token))

\* the --ide option is absent or '' (falsy)
NoIdeOption(ide) == Nullish(ide) \/ ide = {<<>>}

\* selectedIDEs before validation: from --ide, from the checkbox answer,
\* or both IDEs in --yes mode
selectIDEs(options, answer) ==
    IF ~NoIdeOption(options.ide)
    THEN IF Get(options.ide) = Codes("all")
         THEN <<Codes("claude"), Codes("antigravity")>>
         ELSE LET pieces == Split(Get(options.ide), CodeOf(","))
              IN  [i \in 1..Len(pieces) |-> TrimLowerCase(pieces[i])]
    ELSE IF ~options.yes THEN answer
    ELSE <<Codes("claude"), Codes("antigravity")>>

\* selectedIDEs.filter(ide => validIDEs.includes(ide))
filterValid(selectedIDEs) ==
    LET IsValid(ide) == \E i \in 1..Len(validIDEs) : Codes(validIDEs[i]) = ide
    IN  SelectSeq(selectedIDEs, IsValid)

\* the keys of IDE_TEMPLATES that the strings given are
Names(strs) == [i \in 1..Len(strs) |-> Text(strs[i])]

\* the content of .lighthouse/config.json: whether it parses, and its
\* `ides` member
ConfigFile(valid, ides) == [valid |-> valid, ides |-> ides]

\* the project init runs in: its config.json if any, the step that fails
\* in it, and whether templates/lighthouse-antigravity.md, which the
\* repository does not hold, is installed with the package
Project(config, fault, antigravityTemplate) ==
    [config |-> config, fault |-> fault,
     antigravityTemplate |-> antigravityTemplate]

\* getAntigravitySkillTemplate() throws: readFileSync finds no template
TemplateMissing(ide, project) ==
    ide = "antigravity" /\ ~project.antigravityTemplate

\* what copyTemplates(ide, projectRoot) returns: false when something in
\* its try block threw
copyTemplates(ide, project) ==
    ~TemplateMissing(ide, project) /\ project.fault # ide

\* the error copyTemplates caught: the template is read before the file
\* is written
CopyError(ide, project) ==
    IF TemplateMissing(ide, project)
    THEN "ENOENT: no such file or directory, open"
    ELSE "EACCES: permission denied, open"

\* the loop going on after a copy whatever it returned
CopyFailureExits_Never(success) == FALSE

\* `if (!success) { console.error(...); process.exit(1); }`
CopyFailureExits(success) == ~success

\* one writeFile of config.json or one copyTemplates call
InitEffect(op, ide, ok, ides) == [op |-> op, ide |-> ide, ok |-> ok, ides |-> ides]

\* the copyTemplates calls made so far
CopiesMade ==
    LET IsCopy(e) == e.op = "copyTemplates" IN SelectSeq(effects, IsCopy)

\* the values --ide may have: absent, '', texts of ASCII characters, and
\* names behind or between a vertical tab, a no-break space, an
\* ideographic space, a line separator, a byte order mark and an em space
IdeOptions ==
    {None, Some(<<>>)}
    \cup {Some(Codes(text)) :
             text \in {"all", "ALL", "claude", "antigravity", "antigravity,claude",
                       " Claude,Antigravity ", "cursor", "cursor,antigravity",
                       "claude,all", "claude,claude"}}
    \cup {Some(<<11>> \o Codes("Claude")),
          Some(<<160>> \o Codes("claude")),
          Some(<<12288>> \o Codes("claude,") \o <<8232, 65279>> \o Codes("antigravity")
               \o <<8195>>)}

\* what the checkbox prompt may return: at least one IDE, in choice order
CheckboxAnswers ==
    {<<Codes("claude")>>, <<Codes("antigravity")>>,
     <<Codes("claude"), Codes("antigravity")>>}

\* the projects: never initialized, initialized with or without an `ides`
\* list, or holding a config.json that does not parse; nothing fails, or
\* the copy of one IDE, the creation of .lighthouse or the last write;
\* the package as the repository holds it or with the missing template
Projects ==
    {Project(config, fault, antigravityTemplate) :
        config \in {None, Some(ConfigFile(TRUE, None)),
                    Some(ConfigFile(TRUE, Some(<<"antigravity">>))),
                    Some(ConfigFile(FALSE, None))},
        fault \in {"none", "claude", "antigravity", "create", "update"},
        antigravityTemplate \in BOOLEAN}

InitInit ==
    /\ cmd = "init"
    /\ cargs \in [yes : BOOLEAN, ide : IdeOptions]
    /\ fsys \in Projects
    /\ cpc = "start"
    /\ reportPath = None
    /\ content = <<>>
    /\ console = <<>>
    /\ effects = <<>>
    /\ exitCode = None
    /\ NoGenerator
    /\ NoAnalyzer

\* What init() does from one point where it is resumed to the next point
\* where it waits, or to its end: the console calls, the effects, the
\* valid IDEs selected, the statuses the process may end with ({} while
\* it goes on) and where init() stands after it.
Outcome(messages, done, selected, codes, at) ==
    [console |-> messages, effects |-> done, selected |-> selected,
     exit |-> codes, cpc |-> at]

\* init() waits for the answer to a prompt
Awaiting(prompt) == Outcome(<<>>, <<>>, <<>>, {}, prompt)

\* an exception that leaves init(): the promise it returned is rejected
\* and nothing handles it, so the process ends with status 1, or, on a
\* Node.js older than 15, goes on to end with status 0
Rejected(message, done, selected) ==
    Outcome(<<Err("uncaught", <<Line("text", "", Lit(message))>>)>>,
            done, selected, {0, 1}, "exited")

\* `for (const ide of selectedIDEs)`: the copyTemplates calls made, up to
\* the first after which the loop exits
RECURSIVE CopyAll(_, _)
CopyAll(selectedIDEs, project) ==
    IF selectedIDEs = <<>> THEN <<>>
    ELSE LET ide == Head(selectedIDEs)
             success == copyTemplates(ide, project)
         IN  <<InitEffect("copyTemplates", ide, success, None)>>
             \o (IF CopyFailureExits(success) THEN <<>>
                 ELSE CopyAll(Tail(selectedIDEs), project))

\* the catch block of each copyTemplates that caught an error:
\* spinner.fail(...) and console.error(error)
CaughtMessages(copies, project) ==
    Concat([i \in 1..Len(copies) |->
        IF copies[i].ok THEN <<>>
        ELSE <<Err("spinner", <<Line("text", "",
                  Lit("Failed to copy templates"))>>),
               Err("caught", <<Line("text", "",
                  Lit(CopyError(copies[i].ide, project)))>>)>>])

\* the validation of the selection, createLighthouseDir(), the copies,
\* the config.json with `ides: selectedIDEs` and showSuccess()
Setup(project, selection) ==
    LET selectedIDEs == Names(filterValid(selection))
        created == <<InitEffect("writeConfig", "", TRUE, None)>>
        copies == CopyAll(selectedIDEs, project)
        stopped == copies # <<>> /\ CopyFailureExits(copies[Len(copies)].ok)
    IN  IF selectedIDEs = <<>>
        THEN Outcome(<<Err("error", <<Line("text", "",
                          Lit("Error: No valid IDEs selected"))>>)>>,
                     <<>>, selectedIDEs, {1}, "exited")
        ELSE IF project.fault = "create"
        THEN Rejected("EACCES: permission denied, mkdir", <<>>, selectedIDEs)
        ELSE IF stopped
        THEN Outcome(CaughtMessages(copies, project)
                     \o <<Err("error", <<Line("text", "",
                              Txt("Failed to initialize {s}", <<>>,
                                  <<copies[Len(copies)].ide>>))>>)>>,
                     created \o copies, selectedIDEs, {1}, "exited")
        ELSE IF project.fault = "update"
        THEN LET r == Rejected("ENOSPC: no space left on device, write",
                               created \o copies, selectedIDEs)
             IN  [r EXCEPT !.console = CaughtMessages(copies, project) \o @]
        ELSE Outcome(CaughtMessages(copies, project)
                     \o <<Out("success", <<Line("text", "",
                              Txt("Google Lighthouse skill initialized! Selected IDEs: {s}*",
                                  <<>>, selectedIDEs))>>)>>,
                     created \o copies
                     \o <<InitEffect("writeConfig", "", TRUE, Some(selectedIDEs))>>,
                     selectedIDEs, {0}, "exited")

\* the selection: the checkbox prompt when there is neither --ide nor
\* --yes, the setup with the IDEs of the options otherwise
Select(project, options) ==
    IF NoIdeOption(options.ide) /\ ~options.yes THEN Awaiting("ide?")
    ELSE Setup(project, selectIDEs(options, <<>>))

\* the banner and the check for an earlier initialization: an existing
\* config.json is parsed, and without --yes the overwrite is asked for
CheckInitialized(project, options) ==
    LET banner == <<Out("banner", <<Line("text", "",
                       Lit("Google Lighthouse Skill Initialization"))>>)>>
        then == IF project.config = {} THEN Select(project, options)
                ELSE IF ~Get(project.config).valid
                THEN Rejected("Unexpected token in JSON", <<>>, <<>>)
                ELSE IF ~options.yes THEN Awaiting("overwrite?")
                ELSE Select(project, options)
    IN  [then EXCEPT !.console = banner \o @]

\* what follows the answer to the overwrite prompt
Overwrite(project, options, overwrite) ==
    IF ~overwrite
    THEN Outcome(<<Out("cancelled", <<Line("text", "",
                      Lit("Initialization cancelled."))>>)>>,
                 <<>>, <<>>, {0}, "exited")
    ELSE Select(project, options)

\* the state after a stretch of init() with this outcome
InitStep(outcome) ==
    /\ console' = console \o outcome.console
    /\ effects' = effects \o outcome.effects
    /\ content' = outcome.selected
    /\ exitCode' \in IF outcome.exit = {} THEN {None}
                     ELSE {Some(code) : code \in outcome.exit}
    /\ cpc' = outcome.cpc
    /\ UNCHANGED <<cmd, cargs, fsys, reportPath>>
    /\ UNCHANGED <<genVars, anVars>>

\* init(options) is called and runs until it waits or ends
InitCalled ==
    /\ cmd = "init" /\ cpc = "start"
    /\ InitStep(CheckInitialized(fsys, cargs))

\* the overwrite prompt is answered; init() runs on until it waits or ends
OverwriteAnswered ==
    /\ cmd = "init" /\ cpc = "overwrite?"
    /\ \E overwrite \in BOOLEAN : InitStep(Overwrite(fsys, cargs, overwrite))

\* the checkbox prompt is answered; init() runs to its end
IdeAnswered ==
    /\ cmd = "init" /\ cpc = "ide?"
    /\ \E answer \in CheckboxAnswers : InitStep(Setup(fsys, answer))

NextInit ==
    \/ InitCalled
    \/ OverwriteAnswered
    \/ IdeAnswered

SpecInit == InitInit /\ [][NextInit]_vars

----------------------------------------------------------------------------
(* Vocabulary of the properties of the FixGenerator.                       *)

\* the category passes generate() has completed at least once
PassDone(c) ==
    /\ calls > 0
    /\ \/ pc = "idle"
       \/ c = "performance"
       \/ c = "accessibility" /\ pc \in {"accessibility", "seo", "best-practices"}
       \/ c = "seo" /\ pc \in {"seo", "best-practices"}
       \/ c = "best-practices" /\ pc = "best-practices"

\* generate() has returned at least once and is not running
Returned == calls > 0 /\ pc = "idle"

\* the ids category c of the loaded report references, in order
RefIds(c) == [i \in 1..Len(AuditRefs(lhr, c)) |-> AuditRefs(lhr, c)[i].id]

References(c, id) == \E i \in 1..Len(RefIds(c)) : RefIds(c)[i] = id

\* the synthesized fix of the framework-detection step
IsFrameworkFix(f) == f.title.fmt = "Optimize Next.js Bundle Size (~%KB wasted)"

\* fix f was made from audit a: every rule copies the audit's description
MadeFrom(f, a) == ~IsFrameworkFix(f) /\ f.description = a.description

\* some accumulated fix was made from audit a
Fired(a) == \E k \in 1..Len(fixes) : MadeFrom(fixes[k], a)

\* the dispatch table as the specification lists it: 14 performance,
\* 6 accessibility, 3 SEO and 6 best-practices IDs
ListedIds(c) == LibIds[TableKey(c)] \cup AltIds[TableKey(c)]

\* the title each rule gives its fix, by generator, category and id
RuleTitle(im, c, id) ==
    IF im = "lib" THEN
        CASE id = "server-response-time" -> "Reduce Server Response Time (TTFB: %ms)"
          [] id = "unused-javascript" -> "Reduce Unused JavaScript (~%KB wasted, %ms savings)"
          [] id = "speed-index" -> "Improve Speed Index"
          [] id = "lcp-breakdown-insight" -> "Optimize LCP Breakdown"
          [] id = "document-latency-insight" -> "Reduce Document Request Latency (~%ms savings)"
          [] id = "max-potential-fid" -> "Reduce First Input Delay (FID: %ms)"
          [] id = "color-contrast" -> "Fix Color Contrast (% elements affected)"
          [] id = "heading-order" -> "Fix Heading Order Hierarchy"
          [] id = "meta-description" -> "Add Meta Description"
          [] id = "canonical" -> "Add Canonical Link"
          [] id = "errors-in-console" -> "Fix Console Errors (% errors)"
          [] id = "valid-source-maps" -> "Fix Missing Source Maps (% files)"
          [] id = "bf-cache" -> "Enable Back/Forward Cache"
          [] OTHER -> "(no rule)"
    ELSE
        CASE id = "render-blocking-resources" -> "Eliminate Render-Blocking Resources"
          [] id = "unminified-css" -> "Minify CSS"
          [] id = "unminified-javascript" -> "Minify JavaScript"
          [] id = "unused-css-rules" -> "Remove Unused CSS"
          [] id = "unused-javascript" -> "Remove Unused JavaScript"
          [] id = "modern-image-formats" -> "Serve Images in Modern Formats"
          [] id = "offscreen-images" -> "Defer Offscreen Images"
          [] id = "uses-optimized-images" -> "Optimize Images"
          [] id = "document-title" -> "Add Document Title"
          [] id = "image-alt" -> "Add Alt Text to Images"
          [] id = "color-contrast" -> "Improve Color Contrast"
          [] id = "label" -> "Add Labels to Form Inputs"
          [] id = "button-name" -> "Add Accessible Names to Buttons"
          [] id = "link-name" -> "Add Descriptive Link Text"
          [] id = "meta-description" -> "Add Meta Description"
          [] id = "canonical" -> "Add Canonical Link"
          [] id = "structured-data" -> "Add Structured Data"
          [] id = "viewport" -> "Add Viewport Meta Tag"
          [] id = "http-status-code" -> "Fix HTTP Status Codes"
          [] id = "no-vulnerable-libraries" -> "Update Vulnerable Libraries"
          [] OTHER -> "(no rule)"

\* some accumulated fix is the one the rule of id makes from audit a
RuleFired(c, a) ==
    \E k \in 1..Len(fixes) :
        /\ MadeFrom(fixes[k], a)
        /\ fixes[k].title.fmt = RuleTitle(impl, c, a.id)

\* the score is a number below 0.9
FailingScore(a) ==
    IF Nullish(a.score) \/ a.score = NaN THEN FALSE ELSE Get(a.score) < 90

----------------------------------------------------------------------------
(* C1: generate() emits a fix for an audit only if the audit's score is    *)
(* non-null and strictly below 0.9: a referenced audit whose score is null *)
(* or at least 0.9 never causes a rule to fire, whatever its id.           *)
C1_OnlyFailingAuditsFire ==
    \A c \in CategorySet : \A id \in AuditIds :
        (References(c, id) /\ AuditAt(lhr, id) # Undefined
              /\ ~FailingScore(Get(AuditAt(lhr, id))))
            => ~Fired(Get(AuditAt(lhr, id)))

----------------------------------------------------------------------------
(* C2: dispatch-table completeness.  As claimed: every id of the listed    *)
(* table (14 + 6 + 3 + 6) that its category references with a non-null     *)
(* score below 0.9 gets a fix from its rule.                               *)
C2_ListedTableComplete ==
    \A c \in CategorySet : \A id \in ListedIds(c) :
        (PassDone(c) /\ References(c, id) /\ AuditAt(lhr, id) # Undefined
              /\ FailingScore(Get(AuditAt(lhr, id))))
            => RuleFired(c, Get(AuditAt(lhr, id)))

(* C2, amended: the same for the ids of the table of the generator that is *)
(* loaded (6 + 2 + 2 + 3 ids in src/lib/fix-generator.js, 9 + 5 + 3 + 3 in *)
(* the other source).                                                      *)
C2_OwnTableComplete ==
    \A c \in CategorySet : \A id \in TableIds(impl, c) :
        (PassDone(c) /\ References(c, id) /\ AuditAt(lhr, id) # Undefined
              /\ FailingScore(Get(AuditAt(lhr, id))))
            => RuleFired(c, Get(AuditAt(lhr, id)))

\* a failing speed-index audit got the speed-index fix
C2_Witness ==
    /\ impl = "lib" /\ Returned
    /\ References("performance", "speed-index")
    /\ AuditAt(lhr, "speed-index") # Undefined
    /\ Get(AuditAt(lhr, "speed-index")).score = Some(89)
    /\ \E k \in 1..Len(fixes) : fixes[k].title.fmt = "Improve Speed Index"

----------------------------------------------------------------------------
(* C3: allow-list.  A rule fix exists only for an audit whose id is in the *)
(* listed table of a category that references it: an audit whose id is not *)
(* in the table of the referencing category yields no fix (the switch has  *)
(* no default branch, so the loop just moves on), and the fixes emitted    *)
(* depend only on audits whose ids are in the table.                       *)
C3_AllowList ==
    \A k \in 1..Len(fixes) :
        IsFrameworkFix(fixes[k])
        \/ \E c \in CategorySet : \E id \in ListedIds(c) :
              /\ References(c, id)
              /\ AuditAt(lhr, id) # Undefined
              /\ MadeFrom(fixes[k], Get(AuditAt(lhr, id)))
              /\ fixes[k].title.fmt = RuleTitle(impl, c, id)

\* a failing audit outside every table was passed over
C3_Witness ==
    /\ Returned
    /\ References("performance", "uses-https")
    /\ AuditAt(lhr, "uses-https") # Undefined
    /\ Get(AuditAt(lhr, "uses-https")).score = Some(0)
    /\ fixes = <<>>
    /\ Len(output) = 2

----------------------------------------------------------------------------
(* The metric audits.                                                      *)

\* numericValue of the audit the report holds under id, a missing one as 0
MetricOf(id) ==
    LET a == Get(AuditAt(lhr, id))
    IN  IF Nullish(a.numericValue) THEN 0 ELSE Get(a.numericValue)

IsTtfbFix(f) == f.title.fmt = "Reduce Server Response Time (TTFB: %ms)"
IsFidFix(f) == f.title.fmt = "Reduce First Input Delay (FID: %ms)"

DiagnosisIs(f, text) == f.diagnosis = Some(Lit(text))

(* C4: TTFB diagnosis tiers: the fix of a failing server-response-time     *)
(* audit with numericValue v (0 when missing) says 'critically high' iff   *)
(* v > 1000, 'elevated' iff 600 < v <= 1000, 'moderate' iff                *)
(* 400 < v <= 600, and 'acceptable' otherwise.                             *)
C4_TtfbTiers ==
    \A k \in 1..Len(fixes) :
        IsTtfbFix(fixes[k]) =>
            LET v == MetricOf("server-response-time")
                f == fixes[k]
            IN  /\ DiagnosisIs(f, "TTFB is critically high (> 1s)") <=> v > 1000
                /\ DiagnosisIs(f, "TTFB is elevated (> 600ms)") <=> (600 < v /\ v <= 1000)
                /\ DiagnosisIs(f, "TTFB is moderate (> 400ms)") <=> (400 < v /\ v <= 600)
                /\ DiagnosisIs(f, "TTFB is acceptable") <=> v <= 400

\* a 1200 ms response was diagnosed critically high
C4_Witness ==
    /\ Returned
    /\ AuditAt(lhr, "server-response-time") # Undefined
    /\ MetricOf("server-response-time") = 1200
    /\ \E k \in 1..Len(fixes) :
          IsTtfbFix(fixes[k]) /\ DiagnosisIs(fixes[k], "TTFB is critically high (> 1s)")

(* C5: FID diagnosis tiers: the fix of a failing max-potential-fid audit   *)
(* with numericValue v says 'critically high' iff v > 200, 'needs          *)
(* improvement' iff 100 < v <= 200, 'acceptable but could be better' iff   *)
(* 50 < v <= 100, 'good' otherwise: exactly one tier for every v.          *)
C5_FidTiers ==
    \A k \in 1..Len(fixes) :
        IsFidFix(fixes[k]) =>
            LET v == MetricOf("max-potential-fid")
                f == fixes[k]
                tiers == {"FID is critically high (> 200ms)",
                          "FID needs improvement (> 100ms)",
                          "FID is acceptable but could be better",
                          "FID is good"}
            IN  /\ DiagnosisIs(f, "FID is critically high (> 200ms)") <=> v > 200
                /\ DiagnosisIs(f, "FID needs improvement (> 100ms)") <=> (100 < v /\ v <= 200)
                /\ DiagnosisIs(f, "FID is acceptable but could be better")
                      <=> (50 < v /\ v <= 100)
                /\ DiagnosisIs(f, "FID is good") <=> v <= 50
                /\ Cardinality({t \in tiers : DiagnosisIs(f, t)}) = 1

\* a 101 ms delay was diagnosed as needing improvement
C5_Witness ==
    /\ Returned
    /\ AuditAt(lhr, "max-potential-fid") # Undefined
    /\ MetricOf("max-potential-fid") = 101
    /\ \E k \in 1..Len(fixes) :
          IsFidFix(fixes[k]) /\ DiagnosisIs(fixes[k], "FID needs improvement (> 100ms)")

----------------------------------------------------------------------------
(* Priorities.                                                             *)

\* the priority the rule of id gives the fix it makes from the audit
\* stripped of numericValue and details
BarePriority(im, c, id) ==
    LET bare == AuditOf(id, Some(0), FALSE)
        made == IF im = "lib" THEN LibSwitch(c, bare) ELSE AltSwitch(c, bare)
    IN  made[1].priority

\* fix f is the one the rule of id, dispatched in category c, made from the
\* report's audit
FixOfRule(f, c, id) ==
    /\ id \in TableIds(impl, c)
    /\ References(c, id)
    /\ AuditAt(lhr, id) # Undefined
    /\ MadeFrom(f, Get(AuditAt(lhr, id)))
    /\ f.title.fmt = RuleTitle(impl, c, id)

(* C6, as claimed: the priority of a rule's fix is the same for all audits *)
(* passed to the rule: whatever numericValue, details and score the audit  *)
(* has, it is the priority the rule gives the bare audit.                  *)
C6_PriorityHardCoded ==
    \A k \in 1..Len(fixes) : \A c \in CategorySet : \A id \in TableIds(impl, c) :
        FixOfRule(fixes[k], c, id) => fixes[k].priority = BarePriority(impl, c, id)

(* C6, amended: that holds of every rule but max-potential-fid, whose fix  *)
(* is 'high' iff numericValue > 100 and 'medium' otherwise.                *)
C6_PriorityHardCodedButFid ==
    \A k \in 1..Len(fixes) : \A c \in CategorySet : \A id \in TableIds(impl, c) :
        FixOfRule(fixes[k], c, id) =>
            IF impl = "lib" /\ id = "max-potential-fid"
            THEN fixes[k].priority =
                     (IF MetricOf("max-potential-fid") > 100 THEN "high" ELSE "medium")
            ELSE fixes[k].priority = BarePriority(impl, c, id)

\* a 101 ms FID audit got a 'high' fix, where the bare audit gets 'medium'
C6_Witness ==
    /\ Returned
    /\ AuditAt(lhr, "max-potential-fid") # Undefined
    /\ MetricOf("max-potential-fid") = 101
    /\ BarePriority("lib", "performance", "max-potential-fid") = "medium"
    /\ \E k \in 1..Len(fixes) :
          /\ FixOfRule(fixes[k], "performance", "max-potential-fid")
          /\ fixes[k].priority = "high"

----------------------------------------------------------------------------
(* The unused-javascript rule.                                             *)

\* the item's URL contains 'chrome-extension://', at its start or
\* anywhere behind it: a segment ends with 'chrome-extension:' and an
\* empty segment and one more follow
HasExtensionScheme(item) ==
    /\ ~Nullish(item.url)
    /\ \E i \in 1..(Len(Get(item.url)) - 2) :
          /\ IsSuffix("chrome-extension:", Get(item.url)[i])
          /\ Get(item.url)[i + 1] = ""

IsUnusedJsFix(f) == f.title.fmt = "Reduce Unused JavaScript (~%KB wasted, %ms savings)"

SnippetsTitled(f, title) ==
    LET Titled(sn) == sn.title = title IN SelectSeq(f.fixes, Titled)

\* file name of an item as the snippets print it: the text after the last
\* '/' of its URL, 'unknown' for an item without a URL or with an empty one
FileName(item) ==
    IF Nullish(item.url) THEN "unknown"
    ELSE IF Get(item.url) = <<"">> THEN "unknown"
    ELSE Get(item.url)[Len(Get(item.url))]

(* C7: unused-JavaScript partition.  The fix holds the first-party         *)
(* analysis block iff some item's URL does not contain                     *)
(* 'chrome-extension://', and a separate 'Can Ignore' block iff some       *)
(* item's URL contains it; the 'Can Ignore' block names exactly the        *)
(* extension items, the analysis block names first-party items only, and   *)
(* every item is in exactly one of the two partitions.                     *)
C7_UnusedJsPartition ==
    \A k \in 1..Len(fixes) :
        IsUnusedJsFix(fixes[k]) =>
            LET items == ItemsOf(Get(AuditAt(lhr, "unused-javascript")))
                ext == SelectSeq(items, HasExtensionScheme)
                NotExt(item) == ~HasExtensionScheme(item)
                own == SelectSeq(items, NotExt)
                analysis == SnippetsTitled(fixes[k], "Unused JavaScript Analysis")
                ignore == SnippetsTitled(fixes[k],
                                         "Browser Extensions Detected (Can Ignore)")
            IN  /\ Len(analysis) = (IF Len(own) > 0 THEN 1 ELSE 0)
                /\ Len(ignore) = (IF Len(ext) > 0 THEN 1 ELSE 0)
                /\ Len(ext) > 0 =>
                      ignore[1].code.strs = [i \in 1..Len(ext) |-> FileName(ext[i])]
                /\ Len(own) > 0 =>
                      \A i \in 1..Len(analysis[1].code.strs) :
                          \E j \in 1..Len(own) :
                              analysis[1].code.strs[i] = FileName(own[j])
                /\ fixes[k].diagnosis =
                       Some(Txt("% first-party files with unused code", <<Len(own)>>, <<>>))
                /\ \A i \in 1..Len(items) :
                       IsFirstPartyItem(items[i]) # IsExtensionItem(items[i])

\* one extension item and one first-party item gave both blocks
C7_Witness ==
    /\ Returned
    /\ AuditAt(lhr, "unused-javascript") # Undefined
    /\ ItemsOf(Get(AuditAt(lhr, "unused-javascript"))) = <<ExtensionJs, AppJs>>
    /\ \E k \in 1..Len(fixes) :
          /\ IsUnusedJsFix(fixes[k])
          /\ Len(SnippetsTitled(fixes[k], "Unused JavaScript Analysis")) = 1
          /\ SnippetsTitled(fixes[k], "Browser Extensions Detected (Can Ignore)")[1].code.strs
                 = <<"content.js">>

----------------------------------------------------------------------------
(* The rendered output.                                                    *)

(* C8: for every report in which no referenced audit has a score below     *)
(* 0.9, generate() accumulates an empty fix list and returns the header    *)
(* followed by exactly the line 'No issues found! Great job!'.             *)
C8_NoFailingAuditNoIssues ==
    (/\ Returned
     /\ \A c \in CategorySet : \A id \in AuditIds :
           (References(c, id) /\ AuditAt(lhr, id) # Undefined)
               => ~FailingScore(Get(AuditAt(lhr, id))))
    => /\ fixes = <<>>
       /\ output = <<Line("h1", "", Lit("# Lighthouse Fix Suggestions")),
                     Line("text", "", Lit("No issues found! Great job!"))>>

\* the priority a section heading names
HeadingPriority(line) ==
    CASE line.text = Lit("## (red) High Priority") -> "high"
      [] line.text = Lit("## (yellow) Medium Priority") -> "medium"
      [] line.text = Lit("## (green) Low Priority") -> "low"

\* the section headings of out, in order, as priorities
SectionsOf(out) ==
    LET IsH2(line) == line.kind = "h2"
        heads == SelectSeq(out, IsH2)
    IN  [i \in 1..Len(heads) |-> HeadingPriority(heads[i])]

\* the priority of the section line i of out is under ("" before the first)
SectionAt(out, i) ==
    LET before == {j \in 1..i : out[j].kind = "h2"}
    IN  IF before = {} THEN ""
        ELSE HeadingPriority(out[CHOOSE j \in before : \A m \in before : m <= j])

\* the fix headings under the section of priority p, in order
TitlesUnder(out, p) ==
    LET at == [i \in 1..Len(out) |-> [i |-> i, line |-> out[i]]]
        Mine(e) == e.line.kind = "h3" /\ SectionAt(out, e.i) = p
        mine == SelectSeq(at, Mine)
    IN  [i \in 1..Len(mine) |-> mine[i].line.text]

\* the titles of the fixes of priority p in fs, in order
TitlesOf(fs, p) ==
    LET Has(f) == f.priority = p
        mine == SelectSeq(fs, Has)
    IN  [i \in 1..Len(mine) |-> mine[i].title]

\* out groups the fixes fs, given in emission order
Grouped(fs, out) ==
    LET Present(p) == \E k \in 1..Len(fs) : fs[k].priority = p
    IN  /\ SectionsOf(out) = SelectSeq(Priorities, Present)
        /\ \A p \in {"high", "medium", "low"} : TitlesUnder(out, p) = TitlesOf(fs, p)
        /\ TitlesUnder(out, "") = <<>>
        /\ Cardinality({i \in 1..Len(out) : out[i].kind = "h3"}) = Len(fs)

(* C9: priority grouping.  Whenever formatOutput renders a fix list, the   *)
(* output has at most three priority sections, in the order high, medium,  *)
(* low; a section is present iff some fix has that priority; every fix     *)
(* appears exactly once, under the section of its own priority; and within *)
(* a section the fixes keep the order they have in the engine's list.      *)
C9_PriorityGrouping ==
    [][pc = "best-practices" => Grouped(fixes, output')]_vars

\* a low, a high and a medium fix, emitted in that order, came out as
\* high, medium, low
C9_Witness ==
    /\ Returned /\ calls = 1
    /\ impl = "alt"
    /\ RefIds("performance") = <<"offscreen-images", "render-blocking-resources">>
    /\ RefIds("seo") = <<"canonical">>
    /\ SectionsOf(output) = <<"high", "medium", "low">>
    /\ TitlesUnder(output, "high") = <<Lit("Eliminate Render-Blocking Resources")>>
    /\ TitlesUnder(output, "low") = <<Lit("Defer Offscreen Images")>>

----------------------------------------------------------------------------
(* The analyzer's failed audits.                                           *)

(* C10: for all reports, every category filter and every minScore, the     *)
(* result of getFailedAudits() holds no audit whose score is null and no   *)
(* audit whose scoreDisplayMode is 'manual' or 'notApplicable'.            *)
C10_FailedAuditsExclusions ==
    \A i \in 1..Len(afailed.value) :
        /\ afailed.value[i].score # None
        /\ afailed.value[i].scoreDisplayMode \notin {"manual", "notApplicable"}

\* a call that returned a failed audit and left out a referenced audit
\* with a null score
C10_Witness ==
    /\ afailed.called /\ ~afailed.threw
    /\ afailed.categoryId = None
    /\ Len(afailed.value) = 1
    /\ alhr.audits["uses-https"].score = None
    /\ alhr.audits["uses-https"].scoreDisplayMode = "binary"
    /\ alhr.audits["image-alt"].score = Some(40)
    /\ alhr.audits["image-alt"].scoreDisplayMode = "numeric"
    /\ alhr.categories["performance"].auditRefs = <<Ref("uses-https"), Ref("image-alt")>>
    /\ aoptions.minScore = Hundredths(41)

\* the threshold the caller asked for: the one supplied, 0.5 when none was
SuppliedMinScore ==
    IF Nullish(aargs.minScore) THEN Hundredths(50) ELSE Get(aargs.minScore)

\* the category ids of the report in stored order when the call is
\* unfiltered, the one named category otherwise
TraversedCategories(categoryId) ==
    IF Nullish(categoryId) \/ categoryId = {""} THEN alhr.categoryOrder
    ELSE IF Get(categoryId) \in DOMAIN alhr.categories THEN <<Get(categoryId)>>
    ELSE <<>>

\* the ids referenced, in traversal order, repeats included
TraversedIds(categoryId) ==
    LET cs == TraversedCategories(categoryId)
        refs == Concat([i \in 1..Len(cs) |-> alhr.categories[cs[i]].auditRefs])
    IN  [i \in 1..Len(refs) |-> refs[i].id]

\* position of the first reference to id in the traversal
FirstSeen(ids, id) == CHOOSE i \in 1..Len(ids) : ids[i] = id /\ \A j \in 1..(i - 1) : ids[j] # id

\* the audit is one the caller's threshold asks for
AskedFor(audit, minScore) ==
    /\ ~Nullish(audit.score)
    /\ LessThanDec(Get(audit.score), minScore)
    /\ audit.scoreDisplayMode \notin {"manual", "notApplicable"}

(* C11: for every supplied minScore in [0, 1], 0 included, the call        *)
(* retains exactly the referenced audits with a non-null score below the   *)
(* supplied minScore and a display mode other than manual, notApplicable;  *)
(* 0.5 is the threshold only when none is supplied.                        *)
C11_ThresholdAsSupplied ==
    (afailed.called /\ ~afailed.threw) =>
        LET ids == TraversedIds(afailed.categoryId)
        IN  /\ \A i \in 1..Len(afailed.value) :
                  /\ \E k \in 1..Len(ids) : ids[k] = afailed.value[i].id
                  /\ AskedFor(afailed.value[i], SuppliedMinScore)
            /\ \A k \in 1..Len(ids) :
                  (ids[k] \in DOMAIN alhr.audits
                      /\ AskedFor(alhr.audits[ids[k]], SuppliedMinScore))
                    => \E i \in 1..Len(afailed.value) :
                          afailed.value[i] = alhr.audits[ids[k]]

(* C12: in the unfiltered call an audit referenced by several categories,  *)
(* or twice by one, appears at most once in the result, and the result is  *)
(* in the first-seen order of the ids, categories traversed in stored      *)
(* order and each category's auditRefs in sequence.                        *)
C12_Deduplicated ==
    (afailed.called /\ ~afailed.threw
        /\ (Nullish(afailed.categoryId) \/ afailed.categoryId = {""})) =>
        LET ids == TraversedIds(afailed.categoryId)
        IN  \A i \in 1..Len(afailed.value) : \A j \in 1..Len(afailed.value) :
                i < j => /\ afailed.value[i].id # afailed.value[j].id
                         /\ FirstSeen(ids, afailed.value[i].id)
                               < FirstSeen(ids, afailed.value[j].id)

\* both audits fail and both categories reference both; the result holds
\* each once, in the order of the category stored first
C12_Witness ==
    /\ afailed.called /\ ~afailed.threw /\ afailed.categoryId = None
    /\ alhr.categoryOrder = <<"seo", "performance">>
    /\ alhr.categories["seo"].auditRefs = <<Ref("image-alt"), Ref("uses-https")>>
    /\ alhr.categories["performance"].auditRefs = <<Ref("uses-https"), Ref("image-alt")>>
    /\ Len(afailed.value) = 2
    /\ afailed.value[1].id = "image-alt"
    /\ afailed.value[2].id = "uses-https"

(* C13, for a call whose category argument is none, a category of the     *)
(* report or a name no object knows:                                       *)
(* getFailedAudits() tolerates dangling references: a reference whose      *)
(* id has no entry in audits is skipped, and the call returns the failed   *)
(* audits of the remaining references without raising.                     *)
C13_DanglingSkipped ==
    (afailed.called /\ ~InheritedCategory(alhr, afailed.categoryId)) =>
        /\ ~afailed.threw
        /\ LET ids == TraversedIds(afailed.categoryId)
           IN  \A k \in 1..Len(ids) :
                   (ids[k] \in DOMAIN alhr.audits
                       /\ IsFailedAudit(alhr.audits[ids[k]], aoptions.minScore))
                     => \E i \in 1..Len(afailed.value) :
                           afailed.value[i] = alhr.audits[ids[k]]

----------------------------------------------------------------------------
(* The analyzer's opportunities and vitals.                                *)

\* position of the audit id in the audits map of the report
AuditPosition(id) == CHOOSE i \in 1..Len(alhr.auditOrder) : alhr.auditOrder[i] = id

\* overallSavingsMs of the audit, 0 when absent
SavingsOf(audit) ==
    IF Nullish(Get(audit.details).overallSavingsMs) THEN 0
    ELSE Get(Get(audit.details).overallSavingsMs)

\* the audits of the report, in or out of any category, with
\* details.type === 'opportunity' and score < 1 as JavaScript evaluates
\* it: a null score compares as 0, an audit without a score is not below
\* any number
OpportunityAuditIds ==
    {id \in DOMAIN alhr.audits :
        /\ ~Nullish(alhr.audits[id].details)
        /\ Get(alhr.audits[id].details).type = "opportunity"
        /\ alhr.audits[id].score # Undefined
        /\ (alhr.audits[id].score = None \/ Get(alhr.audits[id].score) < 100)}

(* C14: getOpportunities() returns its entries in non-increasing wastedMs  *)
(* (overallSavingsMs, or 0 when absent), entries with equal wastedMs in    *)
(* the order of their audits in the audits map; the entries are exactly    *)
(* the audits with details.type === 'opportunity' and score < 1.           *)
C14_OpportunitiesSorted ==
    aopps.called =>
        LET v == aopps.value
        IN  /\ \A i, j \in 1..Len(v) :
                  i < j => /\ v[i].wastedMs >= v[j].wastedMs
                           /\ v[i].id # v[j].id
                           /\ v[i].wastedMs = v[j].wastedMs
                                 => AuditPosition(v[i].id) < AuditPosition(v[j].id)
            /\ {v[i].id : i \in 1..Len(v)} = OpportunityAuditIds
            /\ \A i \in 1..Len(v) : v[i].wastedMs = SavingsOf(alhr.audits[v[i].id])

\* three opportunities, the largest saving stored last in the audits map
\* and two equal savings behind it
C14_Witness ==
    /\ aopps.called
    /\ Len(aopps.value) = 3
    /\ aopps.value[1].wastedMs = 300
    /\ aopps.value[2].wastedMs = 150
    /\ aopps.value[3].wastedMs = 150
    /\ aopps.value[1].id = alhr.auditOrder[3]

\* the display order of the vitals
DisplayPosition(key) ==
    CASE key = "lcp" -> 1 [] key = "fid" -> 2 [] key = "cls" -> 3
      [] key = "fcp" -> 4 [] key = "tbt" -> 5 [] key = "si" -> 6

\* the audit a vitals key stands for
VitalAuditId(key) ==
    CASE key = "lcp" -> "largest-contentful-paint"
      [] key = "fid" -> "max-potential-fid"
      [] key = "cls" -> "cumulative-layout-shift"
      [] key = "fcp" -> "first-contentful-paint"
      [] key = "tbt" -> "total-blocking-time"
      [] key = "si" -> "speed-index"

(* C15: getCoreWebVitals() returns one entry per vitals audit present in   *)
(* the report and none for an absent one, in the order LCP, FID, CLS, FCP, *)
(* TBT, Speed Index whatever the order of the audits map; an entry's       *)
(* passed flag is true iff the audit's rating is 'pass'.                   *)
C15_VitalsInDisplayOrder ==
    avitals.called =>
        LET v == avitals.value
        IN  /\ \A i, j \in 1..Len(v) :
                  i < j => DisplayPosition(v[i].key) < DisplayPosition(v[j].key)
            /\ \A key \in {"lcp", "fid", "cls", "fcp", "tbt", "si"} :
                  (\E i \in 1..Len(v) : v[i].key = key)
                      <=> VitalAuditId(key) \in DOMAIN alhr.audits
            /\ \A i \in 1..Len(v) :
                  /\ v[i].rating = alhr.audits[VitalAuditId(v[i].key)].rating
                  /\ v[i].passed <=> (v[i].rating = {"pass"})

\* five vitals present in reverse order in the audits map, FCP absent,
\* ratings mixed
C15_Witness ==
    /\ avitals.called
    /\ Len(avitals.value) = 5
    /\ alhr.auditOrder[1] = "speed-index"
    /\ "first-contentful-paint" \notin DOMAIN alhr.audits
    /\ avitals.value[1].key = "lcp" /\ avitals.value[1].passed
    /\ avitals.value[2].key = "fid" /\ ~avitals.value[2].passed
    /\ avitals.value[5].key = "si"

----------------------------------------------------------------------------
(* The commands.                                                           *)

\* the command has a result in memory
Computed == cpc \in {"computed", "shown", "dir-ready"} \/ (cpc = "exited" /\ calls > 0)

\* the process has ended
Exited == cpc = "exited"

\* the fix was made from an audit that category c of the report references
FromCategory(f, c) ==
    \E i \in 1..Len(RefIds(c)) :
        /\ RefIds(c)[i] \in DOMAIN lhr.audits
        /\ MadeFrom(f, lhr.audits[RefIds(c)[i]])

(* C16: when `gl fixes --category C` is given, the generated fix list      *)
(* holds only fixes produced from audits of category C; with no filter     *)
(* all four categories contribute.                                         *)
C16_CategoryFilter ==
    (cmd = "fixes" /\ calls > 0) =>
        /\ ~Nullish(cargs.category) =>
              \A k \in 1..Len(fixes) : FromCategory(fixes[k], Get(cargs.category))
        /\ Nullish(cargs.category) =>
              \A c \in CategorySet : \A i \in 1..Len(RefIds(c)) :
                  (RefIds(c)[i] \in DOMAIN lhr.audits
                      /\ FailingScore(lhr.audits[RefIds(c)[i]])
                      /\ RefIds(c)[i] \in TableIds("lib", c))
                    => Fired(lhr.audits[RefIds(c)[i]])

\* the threshold of --min-score, in hundredths
ThresholdAsked == Get(parseFloat(cargs.minScore))

\* some category of the analyzed report scores below the threshold
ScoreBelowThreshold ==
    \E c \in DOMAIN alhr.categories :
        /\ ~Nullish(alhr.categories[c].score)
        /\ LessThanDec(Get(alhr.categories[c].score), ThresholdAsked)

(* C17: `gl analyze <report> --min-score T` exits with a non-zero status   *)
(* when the report's score is below T, and with 0 when the score meets T.  *)
C17_LowScoreExitsNonZero ==
    (cmd = "analyze" /\ Exited /\ afailed.called /\ ~afailed.threw) =>
        /\ ScoreBelowThreshold => exitCode # Some(0)
        /\ (~ScoreBelowThreshold /\ fsys.fault = "none"
               /\ toISOString(alhr.fetchTime) # None) => exitCode = Some(0)

\* the paths of the model: the files, a path where nothing is, the
\* directories
Paths == DOMAIN fsys.files \cup {MissingPath} \cup {DirPath(d) : d \in fsys.dirs}

\* the path is missing, or what is there is no file, is unreadable or is
\* not valid JSON
Unloadable(path) ==
    \/ path \notin DOMAIN fsys.files
    \/ fsys.files[path].kind \in {"unreadable", "invalid"}

\* something, a file or a directory, is at the path
Exists(path) == path \in DOMAIN fsys.files \/ path \in {DirPath(d) : d \in fsys.dirs}

\* the message of the error Node.js raises on an unloadable path:
\* readFileSync on a directory, on a path where nothing is and on a file
\* it may not read, JSON.parse on a file that is not JSON
UnderlyingMessage(path) ==
    IF path \in {DirPath(d) : d \in fsys.dirs}
    THEN "EISDIR: illegal operation on a directory, read"
    ELSE IF path \notin DOMAIN fsys.files THEN "ENOENT: no such file or directory"
    ELSE IF fsys.files[path].kind = "unreadable" THEN "EACCES: permission denied"
    ELSE "Unexpected token in JSON"

\* no generator and no analyzer holds a report
NoInstance ==
    /\ lhr = Report(EmptyMap, EmptyMap) /\ fixes = <<>> /\ calls = 0
    /\ alhr = AReport(<<>>, EmptyMap, <<>>, EmptyMap) /\ ~afailed.called

\* the command printed the message on the error stream
Reported(message) ==
    \E i \in 1..Len(console) :
        /\ console[i].stream = "err"
        /\ console[i].lines = <<Line("text", "", message)>>

\* a file was written
Wrote == \E i \in 1..Len(effects) : effects[i].op = "write"

(* C18: report loading fails cleanly.  Constructing an analyzer or a       *)
(* generator on a path that is missing, unreadable or not valid JSON       *)
(* throws an error whose message wraps the underlying message, and yields  *)
(* no instance; the command then prints the message and exits non-zero     *)
(* without writing an output file; a command exits 0 only when the whole   *)
(* run succeeded.                                                          *)
C18_LoadFailsCleanly ==
    /\ \A path \in Paths :
          Unloadable(path) =>
              /\ loadReport(fsys, path).threw
              /\ loadReport(fsys, path).message.fmt = "Failed to load report: {s}"
              /\ loadReport(fsys, path).message.strs = <<UnderlyingMessage(path)>>
    /\ \A path \in Paths : ~Unloadable(path) => ~loadReport(fsys, path).threw
    /\ (Exited /\ ~Nullish(reportPath) /\ Exists(Get(reportPath))
           /\ Unloadable(Get(reportPath))) =>
          /\ NoInstance
          /\ exitCode = Some(1)
          /\ effects = <<>>
          /\ Reported(Txt("Failed to load report: {s}", <<>>,
                          <<UnderlyingMessage(Get(reportPath))>>))
    /\ exitCode = Some(0) =>
          /\ Exited
          /\ ~Nullish(reportPath) /\ ~Unloadable(Get(reportPath))
          /\ \A i \in 1..Len(console) : console[i].stream = "out"
          /\ SavesFile(cmd, cargs) =>
                /\ Wrote
                /\ effects[Len(effects)] = Effect("write", OutputPath(cmd, cargs), content)

\* a fixes run on a file that is not JSON has ended with status 1, the
\* wrapped parse message printed and nothing created
C18_Witness ==
    /\ cmd = "fixes" /\ Exited
    /\ reportPath = Some(GivenPath)
    /\ fsys.files[GivenPath].kind = "invalid"
    /\ exitCode = Some(1)
    /\ effects = <<>>
    /\ Reported(Txt("Failed to load report: {s}", <<>>, <<"Unexpected token in JSON">>))

\* the JSON files of the reports directory
ReportCandidates ==
    {p \in DOMAIN fsys.files : p.dir = ReportsDir /\ p.ext = "json"}

\* the command has settled the report path
Resolved == cpc # "start" /\ cpc # "none"

(* C19: with no path argument the commands use                             *)
(* .lighthouse/reports/latest.json if it exists, otherwise the most        *)
(* recently modified *.json of .lighthouse/reports; an explicit path is    *)
(* used as given, with no fallback.  If no path resolves or the resolved   *)
(* path does not exist, the command prints the error and the remediation   *)
(* hint and exits non-zero before constructing an analyzer or a generator  *)
(* and before creating any directory or file.  An argument that is the    *)
(* empty string names no path and counts as no argument.                   *)
C19_ReportResolution ==
    Resolved =>
        /\ ~NoReportArg(cargs.report) => reportPath = cargs.report
        /\ (NoReportArg(cargs.report) /\ DefaultPath \in DOMAIN fsys.files)
              => reportPath = Some(DefaultPath)
        /\ (NoReportArg(cargs.report) /\ DefaultPath \notin DOMAIN fsys.files) =>
              IF ReportCandidates = {} THEN Nullish(reportPath)
              ELSE /\ ~Nullish(reportPath)
                   /\ Get(reportPath) \in ReportCandidates
                   /\ \A p \in ReportCandidates :
                         fsys.files[p].mtime <= fsys.files[Get(reportPath)].mtime
        /\ (Nullish(reportPath) \/ ~Exists(Get(reportPath))) =>
              /\ Exited
              /\ exitCode = Some(1)
              /\ console = NotFoundMessages
              /\ NoInstance
              /\ effects = <<>>

\* no latest.json, the older report listed first: the newer one is used
C19_Witness ==
    /\ Resolved
    /\ cargs.report = None
    /\ DefaultPath \notin DOMAIN fsys.files
    /\ fsys.listing = <<OlderJson, NewerJson, NotesTxt>>
    /\ fsys.files[OlderJson].mtime < fsys.files[NewerJson].mtime
    /\ reportPath = Some(NewerJson)

\* the entry of the console that shows the result
ShownResult(entry) ==
    /\ entry.stream = "out"
    /\ IF cmd = "fixes" THEN entry.kind = "content" /\ entry.lines = output
       ELSE /\ entry.kind = "analysis"
            /\ entry.lines = AnalyzeDisplay(getSummary(alhr), avitals.value,
                                            aopps.value, afailed.value, cargs.verbose)

\* the save has been reached
SaveReached == cpc \in {"shown", "dir-ready"} \/ effects # <<>>

(* C20, as claimed: in every run of fixes and of analyze that reaches the  *)
(* file write, the complete content saved has been printed to the console  *)
(* before.                                                                 *)
C20_ContentPrintedBeforeSave ==
    \A i \in 1..Len(effects) :
        effects[i].op = "write" =>
            \E k \in 1..Len(console) :
                console[k].stream = "out" /\ console[k].lines = effects[i].lines

(* C20, amended: in every run that reaches the save, the result has been   *)
(* printed before: by fixes the complete content it then writes, by        *)
(* analyze the console analysis (the file it writes is another rendering,  *)
(* made after the print).  If making the directory, rendering or writing   *)
(* fails, the command reports the error and exits non-zero; nothing once   *)
(* printed is ever changed.                                                *)
C20_PrintPrecedesSave ==
    /\ [](SaveReached =>
            /\ \E k \in 1..Len(console) : ShownResult(console[k])
            /\ cmd = "fixes" =>
                  \A i \in 1..Len(effects) :
                      effects[i].op = "write" => effects[i].lines = output)
    /\ []((SaveReached /\ Exited /\ ~Wrote) =>
            /\ exitCode = Some(1)
            /\ console[Len(console)].stream = "err")
    /\ [][/\ Len(console') >= Len(console)
          /\ \A k \in 1..Len(console) : console'[k] = console[k]]_vars

\* the fixes were printed, then the write failed: status 1, the content
\* still on the console, the error after it
C20_Witness ==
    /\ cmd = "fixes" /\ Exited
    /\ fsys.fault = "write"
    /\ exitCode = Some(1)
    /\ ~Wrote
    /\ Len(output) > 2
    /\ \E k \in 1..Len(console) : ShownResult(console[k])
    /\ console[Len(console)].stream = "err"

----------------------------------------------------------------------------
(* Repeated generation.                                                    *)

(* C21: a second generate() call on the same FixGenerator instance (same   *)
(* report) returns exactly the output the first call returned: the string  *)
(* a later call returns equals the string returned before it.              *)
C21_RegenerateSameOutput ==
    [][(pc = "best-practices" /\ calls > 1) => output' = output]_vars

----------------------------------------------------------------------------
(* The library used directly: a FixGenerator and a LighthouseAnalyzer,     *)
(* each on its own report, called in any order.                            *)

\* reports whose performance category references a failing
\* unused-javascript audit with any list of two first-party items and an
\* extension item
LibraryReports ==
    {r \in UnusedJsReports :
        /\ AuditRefs(r, "performance") # <<>>
        /\ \A i \in 1..Len(ItemsOf(r.audits["unused-javascript"])) :
              ItemsOf(r.audits["unused-javascript"])[i] \in {AppJs, VendorJs, ExtensionJs}
        /\ r.audits["unused-javascript"].score = Some(0)
        /\ SavingsMsOf(r.audits["unused-javascript"]) = Some(150)}

\* analyzer reports of two categories, the first referencing two audits
\* or one audit twice, and a report the commands load
LibraryAnalyzerReports ==
    {FailingReport}
    \cup
    {r \in AnalyzerReports :
        /\ r.categoryOrder = <<"performance", "seo">>
        /\ r.categories["performance"].auditRefs
               \in {<<Ref("uses-https"), Ref("image-alt")>>,
                    <<Ref("uses-https"), Ref("uses-https")>>}
        /\ r.categories["seo"].auditRefs = <<Ref("image-alt"), Ref("uses-https")>>
        /\ r.audits["uses-https"] = UsesHttps(Some(40), "binary")
        /\ r.audits["image-alt"] = ImageAlt(Some(40), "numeric")}

\* one report of opportunities out of savings order, one of vitals
LibraryMetricReports ==
    {r \in OpportunityReports :
        /\ r.auditOrder = <<"render-blocking-resources", "unused-css-rules",
                            "uses-text-compression">>
        /\ \A i \in 1..3 :
              r.audits[r.auditOrder[i]] =
                  AnalyzerAudit(r.auditOrder[i], Some(50), None, None,
                                Some(OpportunityDetails("opportunity",
                                         IF i = 2 THEN Some(300) ELSE Some(150))))}
    \cup {r \in VitalsReports :
             /\ DOMAIN r.audits = VitalIds
             /\ r.auditOrder[1] = "speed-index"
             /\ r.audits["speed-index"].rating = Some("average")}

InitLibrary ==
    /\ impl \in Impls
    /\ lhr \in LibraryReports
    /\ fixes = <<>>
    /\ pc = "idle"
    /\ output = <<>>
    /\ calls = 0
    /\ \/ alhr \in LibraryAnalyzerReports
       \/ alhr \in LibraryMetricReports
    /\ aargs = [category |-> None, minScore |-> None]
    /\ aoptions = AnalyzerOptions(aargs)
    /\ afailed = NoCall
    /\ aopps = NoQuery
    /\ avitals = NoQuery
    /\ aresult = NoResult
    /\ NoCommand

NextLibrary ==
    \/ Next
    \/ NextAnalyzer

SpecLibrary == InitLibrary /\ [][NextLibrary]_vars

(* C22: no Analyzer query and no FixGenerator operation changes the loaded *)
(* report: categories, every auditRefs sequence and its order, audits and  *)
(* every details.items sequence and its order are the same after any       *)
(* sequence of calls.                                                      *)
C22_ReportReadOnly ==
    [][lhr' = lhr /\ alhr' = alhr]_vars

\* generate() has returned on a report whose first-party items are out of
\* wasted-bytes order, so that the analysis sorted them, and the analyzer
\* has answered getFailedAudits for a category of its report
C22_Witness ==
    /\ impl = "lib" /\ Returned
    /\ LET items == ItemsOf(Get(AuditAt(lhr, "unused-javascript")))
       IN  /\ Len(items) = 2
           /\ IsFirstPartyItem(items[1]) /\ IsFirstPartyItem(items[2])
           /\ WastedBytesOf(items[1]) < WastedBytesOf(items[2])
    /\ afailed.called /\ afailed.categoryId = Some("seo") /\ ~afailed.threw
    /\ Len(afailed.value) = 2

----------------------------------------------------------------------------
(* The markdown rendering of the analyzer.                                 *)

\* the markdown files the analyze command has written
MarkdownWritten ==
    IF cmd = "analyze" /\ cargs.format = "markdown"
    THEN LET IsWrite(e) == e.op = "write"
             writes == SelectSeq(effects, IsWrite)
         IN  [i \in 1..Len(writes) |-> writes[i].lines]
    ELSE <<>>

\* the lines of a markdown document under the h2 heading given, up to the
\* next h2 heading
SectionUnder(lines, heading) ==
    LET at == [i \in 1..Len(lines) |-> [i |-> i, line |-> lines[i]]]
        Starts(i) == lines[i].kind = "h2" /\ lines[i].text = Lit(heading)
        Inside(e) ==
            \E s \in 1..(e.i - 1) :
                /\ Starts(s)
                /\ \A j \in (s + 1)..e.i : lines[j].kind # "h2"
        kept == SelectSeq(at, Inside)
    IN  [i \in 1..Len(kept) |-> kept[i].line]

\* the 'Ns saved' figures read back from the opportunity headings of a
\* markdown document, in order
SavedFigures(lines) ==
    LET HasFigure(l) == l.kind = "h3" /\ l.text.fmt = "{s} - {n}s saved"
        headings == SelectSeq(SectionUnder(lines, "## Opportunities (Sorted by Impact)"),
                              HasFigure)
    IN  [i \in 1..Len(headings) |-> headings[i].text.nums[1]]

\* whole seconds of the savings of the entries given
RoundedSeconds(opps) == [i \in 1..Len(opps) |-> MathRound(opps[i].wastedMs, 1000)]

(* C23, as claimed: in the markdown produced by formatMarkdown(), the      *)
(* sequence of 'Ns saved' figures read back from the opportunity headings  *)
(* equals, entry by entry, Math.round(wastedMs / 1000) of the entries      *)
(* returned by getOpportunities(), in the same order.                      *)
C23_SavedFiguresRoundTrip ==
    \A i \in 1..Len(MarkdownWritten) :
        SavedFigures(MarkdownWritten[i]) = RoundedSeconds(aopps.value)

(* C23, amended: the figures read back equal, entry by entry and in the    *)
(* same order, Math.round(wastedMs / 1000) of the entries of               *)
(* getOpportunities() whose wastedMs is above 0; an entry without savings  *)
(* gets a heading without a figure, and there are as many headings as      *)
(* entries.                                                                *)
C23_PositiveSavingsRoundTrip ==
    \A i \in 1..Len(MarkdownWritten) :
        LET Saves(opp) == opp.wastedMs > 0
            IsHeading(l) == l.kind = "h3"
        IN  /\ SavedFigures(MarkdownWritten[i])
                   = RoundedSeconds(SelectSeq(aopps.value, Saves))
            /\ Len(SelectSeq(SectionUnder(MarkdownWritten[i],
                                          "## Opportunities (Sorted by Impact)"),
                             IsHeading)) = Len(aopps.value)

\* a markdown file was written for three opportunities out of savings
\* order: 0.5 s (rounded up to 1), 2.6 s (rounded to 3) and none
C23_Witness ==
    /\ Len(MarkdownWritten) = 1
    /\ Len(aopps.value) = 3
    /\ aopps.value[1].id = "unused-css-rules" /\ aopps.value[1].wastedMs = 2600
    /\ aopps.value[2].wastedMs = 500
    /\ aopps.value[3].wastedMs = 0
    /\ SavedFigures(MarkdownWritten[1]) = <<3, 1>>

----------------------------------------------------------------------------
(* Emission order.                                                         *)

\* where a fix may come from in the pass over category c: a reference of
\* the category, by position, and behind the references of performance the
\* framework-detection step
PassOrigins(c) ==
    [i \in 1..Len(RefIds(c)) |-> [c |-> c, id |-> RefIds(c)[i], framework |-> FALSE]]
    \o (IF c = "performance"
        THEN <<[c |-> c, id |-> "", framework |-> TRUE]>>
        ELSE <<>>)

\* the origins of a whole generation, in the order claimed
EmissionOrigins ==
    PassOrigins("performance") \o PassOrigins("accessibility")
    \o PassOrigins("seo") \o PassOrigins("best-practices")

\* fix f is the one that origin yields
FromOrigin(f, origin) ==
    IF origin.framework THEN IsFrameworkFix(f)
    ELSE FixOfRule(f, origin.c, origin.id)

\* the fixes fs come from origins taken from left to right, each origin
\* used at most once
RECURSIVE InOriginOrder(_, _)
InOriginOrder(fs, origins) ==
    IF fs = <<>> THEN TRUE
    ELSE \E j \in 1..Len(origins) :
            /\ FromOrigin(Head(fs), origins[j])
            /\ InOriginOrder(Tail(fs), SubSeq(origins, j + 1, Len(origins)))

\* the pass that follows a position of generate()
NextPass(p) ==
    CASE p = "idle" -> "performance"
      [] p = "performance" -> "accessibility"
      [] p = "accessibility" -> "seo"
      [] p = "seo" -> "best-practices"
      [] p = "best-practices" -> "idle"

(* C24: before priority grouping the fix list of a generation is ordered   *)
(* as all performance fixes in performance.auditRefs order, then the       *)
(* framework-detection fix (if any), then accessibility, SEO and           *)
(* best-practices fixes, each in its category's auditRefs order: the       *)
(* passes run in that order, each appends its fixes behind those already   *)
(* there, and the list the first generation hands to formatOutput is in    *)
(* that order as a whole.                                                  *)
C24_EmissionOrder ==
    /\ []((calls = 1 /\ pc = "best-practices") => InOriginOrder(fixes, EmissionOrigins))
    /\ [][/\ pc' = NextPass(pc)
          /\ pc' # "idle" =>
                /\ Len(fixes') >= Len(fixes)
                /\ SubSeq(fixes', 1, Len(fixes)) = fixes
                /\ InOriginOrder(SubSeq(fixes', Len(fixes) + 1, Len(fixes')),
                                 PassOrigins(pc'))]_vars

\* the first generation of src/lib has emitted seven fixes, the framework
\* fix third, from a report whose performance category references
\* unused-javascript before speed-index
C24_Witness ==
    /\ impl = "lib" /\ calls = 1 /\ pc = "best-practices"
    /\ RefIds("performance") = <<"unused-javascript", "speed-index">>
    /\ RefIds("accessibility") = <<"color-contrast", "heading-order">>
    /\ Len(fixes) = 7
    /\ FixOfRule(fixes[1], "performance", "unused-javascript")
    /\ FixOfRule(fixes[2], "performance", "speed-index")
    /\ IsFrameworkFix(fixes[3])
    /\ FixOfRule(fixes[4], "accessibility", "color-contrast")
    /\ FixOfRule(fixes[5], "accessibility", "heading-order")
    /\ FixOfRule(fixes[6], "seo", "canonical")
    /\ FixOfRule(fixes[7], "best-practices", "valid-source-maps")

----------------------------------------------------------------------------
(* Framework detection (src/lib/fix-generator.js).                         *)

\* the fixes of the framework-detection step in the list
FrameworkFixes == SelectSeq(fixes, IsFrameworkFix)

\* the items of the unused-javascript audit whose URL contains
\* '/_next/static/chunks/'
NextJsItems ==
    LET a == AuditAt(lhr, "unused-javascript")
        IsChunk(item) == UrlIncludes(item, NextChunkMarker)
    IN  IF a = Undefined THEN <<>> ELSE SelectSeq(ItemsOf(Get(a)), IsChunk)

\* the wasted bytes of the items given, a missing value counted as 0
WastedBytesSum(items) ==
    SeqSum([i \in 1..Len(items) |->
               IF Nullish(items[i].wastedBytes) THEN 0
               ELSE Get(items[i].wastedBytes)])

(* C25: after the performance pass of a generation, exactly one extra fix  *)
(* has been appended iff the unused-javascript audit is failing and at     *)
(* least one of its details.items has a URL containing                     *)
(* '/_next/static/chunks/'; the wasted-byte figure of that fix is the sum  *)
(* of wastedBytes over only the matching items (missing wastedBytes        *)
(* counted as 0); no extra fix is appended otherwise.                      *)
C25_FrameworkDetection ==
    (impl = "lib" /\ calls = 1 /\ PassDone("performance")) =>
        IF /\ AuditAt(lhr, "unused-javascript") # Undefined
           /\ FailingScore(Get(AuditAt(lhr, "unused-javascript")))
           /\ NextJsItems # <<>>
        THEN /\ Len(FrameworkFixes) = 1
             /\ FrameworkFixes[1].title.nums
                    = <<MathRound(WastedBytesSum(NextJsItems), 1024)>>
        ELSE FrameworkFixes = <<>>

----------------------------------------------------------------------------
(* The aggregates of the unused-JavaScript fix (src/lib/fix-generator.js). *)

\* all details.items of the unused-javascript audit of the report
UnusedJsItems ==
    LET a == AuditAt(lhr, "unused-javascript")
    IN  IF a = Undefined THEN <<>> ELSE ItemsOf(Get(a))

\* details.overallSavingsMs of the audit, 0 when absent
ReportedSavingsMs ==
    LET ms == SavingsMsOf(Get(AuditAt(lhr, "unused-javascript")))
    IN  IF Nullish(ms) THEN 0 ELSE Get(ms)

\* the number of items that are not extension items
FirstPartyCount ==
    LET NotExtension(item) == ~HasExtensionScheme(item)
    IN  Len(SelectSeq(UnusedJsItems, NotExtension))

(* C26: the wasted-byte total of the unused-JavaScript fix is the sum of   *)
(* wastedBytes over all details.items (extension items included, missing   *)
(* values as 0), shown in whole KB; its millisecond figure is exactly      *)
(* details.overallSavingsMs of the audit (0 when absent), never recomputed *)
(* from the items; the file count in the diagnosis is the number of        *)
(* first-party items only.                                                 *)
C26_UnusedJsAggregates ==
    \A k \in 1..Len(fixes) :
        (impl = "lib" /\ IsUnusedJsFix(fixes[k])) =>
            /\ fixes[k].title.nums
                   = <<MathRound(WastedBytesSum(UnusedJsItems), 1024), ReportedSavingsMs>>
            /\ Get(fixes[k].diagnosis).nums = <<FirstPartyCount>>

\* the fix was made from a first-party file and an extension file, both
\* wasting bytes, of an audit that reports 150 ms: 48 KB, 150 ms, 1 file
C26_Witness ==
    /\ impl = "lib" /\ Returned
    /\ Len(UnusedJsItems) = 2
    /\ FirstPartyCount = 1
    /\ HasExtensionScheme(UnusedJsItems[2])
    /\ WastedBytesSum(UnusedJsItems) = 49000
    /\ \E k \in 1..Len(fixes) :
          /\ IsUnusedJsFix(fixes[k])
          /\ fixes[k].title.nums = <<48, 150>>
          /\ Get(fixes[k].diagnosis).nums = <<1>>

----------------------------------------------------------------------------
(* The colour markers of the category scores.                              *)

\* the score lines of a rendering, in order
ScoreLines(lines) ==
    LET IsScore(l) == l.kind = "score" IN SelectSeq(lines, IsScore)

\* the score lines of the analysis the command has printed
ShownScoreLines ==
    LET IsAnalysis(entry) == entry.stream = "out" /\ entry.kind = "analysis"
        shown == SelectSeq(console, IsAnalysis)
    IN  IF shown = <<>> THEN <<>> ELSE ScoreLines(shown[1].lines)

\* the marker claimed for a score of 0..100 or null
ClaimedMarker(score) ==
    IF score = None THEN "white"
    ELSE IF Get(score) >= 90 THEN "green"
    ELSE IF Get(score) >= 50 THEN "yellow"
    ELSE "red"

(* C27: for every category score s in 0..100 (or null), the colour marker  *)
(* written next to that score in the markdown produced by formatMarkdown() *)
(* is the one the console output of analyze shows for it: white for null,  *)
(* green iff s >= 90, yellow iff 50 <= s < 90, red iff s < 50.             *)
C27_ScoreColourAgreement ==
    \A i \in 1..Len(MarkdownWritten) :
        LET written == ScoreLines(MarkdownWritten[i])
            scores == getSummary(alhr).scores
        IN  /\ Len(written) = Len(ShownScoreLines)
            /\ Len(written) = Len(scores)
            /\ \A k \in 1..Len(written) :
                  /\ written[k].lang = ShownScoreLines[k].lang
                  /\ scores[k].score # NaN =>
                        written[k].lang = ClaimedMarker(scores[k].score)

----------------------------------------------------------------------------
(* The savings figure of the document-latency fix.                         *)

IsDocumentLatencyFix(f) ==
    FixOfRule(f, "performance", "document-latency-insight")

(* C28: the savings figure in the title of the document-latency-insight    *)
(* fix is taken from the report: it equals the audit's                     *)
(* details.overallSavingsMs whenever that field is present (the value 0    *)
(* included), and no figure that is absent from the report is ever shown   *)
(* as a measured saving.                                                   *)
C28_LatencySavingsFromReport ==
    \A k \in 1..Len(fixes) :
        (impl = "lib" /\ IsDocumentLatencyFix(fixes[k])) =>
            LET ms == SavingsMsOf(Get(AuditAt(lhr, "document-latency-insight")))
            IN  IF ~Nullish(ms) THEN fixes[k].title.nums = <<Get(ms)>>
                ELSE fixes[k].title.nums = <<>>

----------------------------------------------------------------------------
(* gl init.                                                                *)

\* the config.json of the project as it is now: the last one written, or
\* the one found
ConfigNow ==
    LET IsWrite(e) == e.op = "writeConfig"
        writes == SelectSeq(effects, IsWrite)
    IN  IF writes = <<>> THEN fsys.config
        ELSE {ConfigFile(TRUE, writes[Len(writes)].ides)}

\* the copyTemplates calls that returned false
FailedCopies ==
    LET Failed(e) == ~e.ok IN SelectSeq(CopiesMade, Failed)

\* the names as the strings selectedIDEs holds
Strings(names) == [i \in 1..Len(names) |-> Codes(names[i])]

\* the run got as far as the template copying
CopyingReached == \E i \in 1..Len(effects) : effects[i].op = "writeConfig"

(* C29: gl init records the selected IDEs only after complete success.     *)
(* Once a run has reached the template copying, config.json holds an       *)
(* `ides` list only if copyTemplates returned success for every selected   *)
(* IDE, and then the list is the selected valid IDEs in selection order;   *)
(* if copying fails for an IDE, init exits non-zero, copies no templates   *)
(* for the IDEs after it and never writes the `ides` list.                 *)
C29_IdesRecordedAfterSuccess ==
    CopyingReached =>
        /\ (ConfigNow # {} /\ Get(ConfigNow).ides # {}) =>
              /\ Len(CopiesMade) = Len(content)
              /\ FailedCopies = <<>>
              /\ [i \in 1..Len(CopiesMade) |-> CopiesMade[i].ide] = content
              /\ Get(ConfigNow).ides = Some(content)
              /\ filterValid(Strings(content)) = Strings(content)
        /\ FailedCopies # <<>> =>
              /\ exitCode = Some(1)
              /\ cpc = "exited"
              /\ ~CopiesMade[Len(CopiesMade)].ok
              /\ Len(FailedCopies) = 1
              /\ ConfigNow = {ConfigFile(TRUE, None)}
        /\ (cpc = "exited" /\ exitCode = Some(0) /\ fsys.fault # "update") =>
              Get(ConfigNow).ides = Some(content)
        /\ \A i \in 1..Len(effects) :
              (effects[i].op = "writeConfig" /\ effects[i].ides # {}) =>
                  /\ i = Len(effects)
                  /\ i = Len(content) + 2
                  /\ \A j \in 2..(i - 1) :
                        effects[j].op = "copyTemplates" /\ effects[j].ok

\* --ide antigravity,claude on a project initialized before, the copy of
\* the first IDE failing: the run ended with status 1 after one copy, the
\* config.json without a list
C29_Witness ==
    /\ cmd = "init" /\ cpc = "exited"
    /\ cargs.ide = Some(Codes("antigravity,claude"))
    /\ fsys.fault = "antigravity"
    /\ fsys.config = Some(ConfigFile(TRUE, Some(<<"antigravity">>)))
    /\ exitCode = Some(1)
    /\ Len(CopiesMade) = 1
    /\ ConfigNow = {ConfigFile(TRUE, None)}

====
